---- MODULE Spec2Model ----
(***************************************************************************)
(* Document Extractor MCP server (src/src/index.js, lines 1-1637): the     *)
(* lazy configuration lifecycle, the HTTP session registry and the         *)
(* ingestion (extract + upsert) pipeline, as one state machine.            *)
(*                                                                         *)
(* Every action is one synchronous segment of the JavaScript code: it      *)
(* starts where a handler is entered or resumed after an await and ends    *)
(* at the next await on real I/O (a store call or a content fetch) or at   *)
(* the handler's return.  The outcome of an I/O call is chosen when the    *)
(* caller is resumed.                                                      *)
(***************************************************************************)
EXTENDS Integers, Sequences, FiniteSets, TLC

\* ------------------------------------------------------------------ bounds
\* PocketBase client objects constructed during one run
MaxClients == 3
\* records the store creates during one run
MaxDocs == 2

\* transport objects (streamable and SSE) constructed during one run
MaxTransports == 3

\* tool invocations of one run, and the session ids callers and randomUUID use
Tasks == {"t1", "t2"}
SessionIds == {"s1", "s2"}
\* the ids randomUUID() returns in the /sse handler and in SSEServerTransport
SseIds == {"e1", "e2"}

\* ------------------------------------------------------- program constants
DefaultUrl == "http://127.0.0.1:8090"
DefaultCollection == "documents"
DefaultPort == 3000

\* ------------------------------------------------------------- environment
\* The store: one reachable PocketBase server with one superuser account.
RemoteUrl == "https://pb.example"
ReachableUrls == {RemoteUrl}
AdminEmail == "admin@example.com"
AdminPassword == "secret"

\* process.env; "" (0 for the ports) stands for an unset variable
EnvUnset ==
  [ POCKETBASE_URL |-> "", POCKETBASE_EMAIL |-> "", POCKETBASE_PASSWORD |-> "",
    POCKETBASE_ADMIN_EMAIL |-> "", POCKETBASE_ADMIN_PASSWORD |-> "",
    DOCUMENTS_COLLECTION |-> "", DEBUG |-> "", PORT |-> 0, HTTP_PORT |-> 0,
    TRANSPORT_MODE |-> "", READ_ONLY_MODE |-> "" ]

EnvConfigured ==
  [ EnvUnset EXCEPT !.POCKETBASE_URL = RemoteUrl, !.POCKETBASE_EMAIL = AdminEmail,
                    !.POCKETBASE_PASSWORD = AdminPassword ]

\* the environments a process is started with
InitEnvs ==
  { [e EXCEPT !.TRANSPORT_MODE = m] : e \in {EnvUnset, EnvConfigured}, m \in {"", "http"} }

\* the .env file dotenv.config() reads: absent, or the README's sample
DotEnvFiles ==
  { EnvUnset, [ EnvUnset EXCEPT !.DOCUMENTS_COLLECTION = "documents", !.DEBUG = "false" ] }

\* Query strings of /mcp and /sse requests: a function from the key, split at
\* its dots, to the value.
EmptyQuery == << >>
Str(s) == [t |-> "s", v |-> s]
Obj(o) == [t |-> "o", v |-> o]
QueryColl == (<<"defaultCollection">> :> "x")
QueryCreds ==
  (<<"pocketbaseUrl">> :> RemoteUrl) @@ (<<"pocketbaseEmail">> :> AdminEmail)
    @@ (<<"pocketbasePassword">> :> AdminPassword)
QueryDebug == (<<"debugMode">> :> "true")
QueryDotted == (<<"config", "defaultCollection">> :> "y")
QueryBlank == (<<"defaultCollection">> :> "")
Queries == {EmptyQuery, QueryColl, QueryCreds, QueryDebug, QueryDotted}

VARIABLES
  env,                  \* process.env
  dotenvFile,           \* the .env file on disk
  dotenvInitialized,
  pb,                   \* 0 is null, else an index into clients
  DOCUMENTS_COLLECTION, \* "" is null
  DEBUG,                \* "null", "true" or "false"
  HTTP_PORT,            \* 0 is null
  configInitialized,
  clients,              \* the PocketBase objects constructed so far
  initCalls,            \* history: initializeConfig calls since the last reset
  snap,                 \* history: the Configuration after the first of them
  started,              \* "no" before main(), then "stdio" or "http"
  transports,           \* transports.streamable: session id -> transport
  tasks,                \* the tool invocations: Tasks -> their handler's state
  docs,                 \* the store's records
  resp,                 \* the answer to the last request
  touched,              \* history: a tool was invoked or a request carried a query
  override,             \* history: the query of the last request that carried one
  raced,                \* history: a write of storeDocument was sent on a stale lookup
  objs,                 \* the transport objects constructed so far, in order
  sse,                  \* transports.sse: key -> index into objs
  authenticate,         \* the authenticate tool's handler (one invocation at a time)
  collections,          \* the store's collections, by name
  server,               \* the McpServer that main() connects to stdio
  html,                 \* a page given to the documentation-site extractor
  docData,              \* what the extractor made of it
  console               \* the request data console.error has printed for debugLog

cfgVars ==
  << env, dotenvFile, dotenvInitialized, pb, DOCUMENTS_COLLECTION, DEBUG, HTTP_PORT,
     configInitialized, clients, initCalls, snap >>

vars ==
  << cfgVars, started, transports, tasks, docs, resp, touched, override, raced, objs, sse,
     authenticate, collections, server, html, docData, console >>

\* ----------------------------------------------- module-level state as one value
G ==
  [ env |-> env, dotenvInitialized |-> dotenvInitialized, pb |-> pb,
    DOCUMENTS_COLLECTION |-> DOCUMENTS_COLLECTION, DEBUG |-> DEBUG,
    HTTP_PORT |-> HTTP_PORT, configInitialized |-> configInitialized,
    clients |-> clients, initCalls |-> initCalls, snap |-> snap ]

SetG(g) ==
  /\ env' = g.env
  /\ dotenvInitialized' = g.dotenvInitialized
  /\ pb' = g.pb
  /\ DOCUMENTS_COLLECTION' = g.DOCUMENTS_COLLECTION
  /\ DEBUG' = g.DEBUG
  /\ HTTP_PORT' = g.HTTP_PORT
  /\ configInitialized' = g.configInitialized
  /\ clients' = g.clients
  /\ initCalls' = g.initCalls
  /\ snap' = g.snap
  /\ UNCHANGED dotenvFile

\* The Configuration: what initializeConfig builds
Configuration(g) ==
  [ pb |-> g.pb, DOCUMENTS_COLLECTION |-> g.DOCUMENTS_COLLECTION, DEBUG |-> g.DEBUG,
    HTTP_PORT |-> g.HTTP_PORT, configInitialized |-> g.configInitialized ]

NoSnap ==
  [ pb |-> 0, DOCUMENTS_COLLECTION |-> "", DEBUG |-> "null", HTTP_PORT |-> 0,
    configInitialized |-> FALSE ]

\* a || b on strings and on port numbers
Or(a, b) == IF a # "" THEN a ELSE b
OrPort(a, b) == IF a # 0 THEN a ELSE b

\* dotenv.config(): sets the variables of the file that the process has not set
dotenvConfig(e, file) ==
  [ k \in DOMAIN e |-> IF k \in {"PORT", "HTTP_PORT"} THEN OrPort(e[k], file[k])
                       ELSE Or(e[k], file[k]) ]

initializeDotenv(g) ==
  IF g.dotenvInitialized THEN g
  ELSE [g EXCEPT !.env = dotenvConfig(g.env, dotenvFile), !.dotenvInitialized = TRUE]

\* new PocketBase(url): a client with an empty auth store
NewPocketBase(url) == [baseUrl |-> url, isValid |-> FALSE]

debugLog(g) ==
  IF g.DEBUG = "null"
  THEN [g EXCEPT !.DEBUG = IF g.env.DEBUG = "true" THEN "true" ELSE "false"]
  ELSE g

\* what debugLog(message, data) prints of the request data it is given: the
\* values of JSON.stringify(data) when DEBUG is on, nothing when it is off
debugLogData(g, values) == IF debugLog(g).DEBUG = "true" THEN values ELSE {}

\* the values of req.query and of the body of a tools/call request
QueryValues(query) == {query[k] : k \in DOMAIN query}
BodyValues(method, url) == IF method = "tools/call" THEN {url.text} ELSE {}

\* history: one more call of initializeConfig has returned, leaving g
Called(g) ==
  [g EXCEPT !.initCalls = IF g.initCalls < 2 THEN g.initCalls + 1 ELSE 2,
            !.snap = IF g.initCalls = 0 THEN Configuration(g) ELSE g.snap]

\* the body of initializeConfig below its guard
buildConfiguration(g) ==
  LET d == initializeDotenv(g)
      e == d.env
  IN  [d EXCEPT !.clients = Append(d.clients, NewPocketBase(Or(e.POCKETBASE_URL, DefaultUrl))),
                !.pb = Len(d.clients) + 1,
                !.DOCUMENTS_COLLECTION = Or(e.DOCUMENTS_COLLECTION, DefaultCollection),
                !.DEBUG = IF e.DEBUG = "true" THEN "true" ELSE "false",
                !.HTTP_PORT = OrPort(e.PORT, OrPort(e.HTTP_PORT, DefaultPort)),
                !.configInitialized = TRUE]

\* initializeConfig without its guard: the reconstruction on every call that
\* C4 rules out
initializeConfigUnguarded(g) == Called(buildConfiguration(g))

initializeConfig(g) ==
  IF g.configInitialized THEN Called(g) ELSE Called(buildConfiguration(g))

\* configInitialized = false, as the request handlers write it before they call
\* initializeConfig
Invalidate(g) == [g EXCEPT !.configInitialized = FALSE, !.initCalls = 0, !.snap = NoSnap]

\* ---------------------------------------------------- Smithery query parameters
RECURSIVE parseSmitheryConfig(_)
parseSmitheryConfig(query) ==
  LET tops == {k[1] : k \in DOMAIN query}
      under(t) == {Tail(k) : k \in {p \in DOMAIN query : p[1] = t}}
  IN  [ t \in tops |->
          IF <<t>> \in DOMAIN query THEN Str(query[<<t>>])
          ELSE Obj(parseSmitheryConfig([k \in under(t) |-> query[<<t>> \o k]])) ]

\* config.key as applySmitheryConfig tests and assigns it
Truthy(config, key) ==
  /\ key \in DOMAIN config
  /\ config[key].t = "s" => config[key].v # ""
AsString(x) == IF x.t = "s" THEN x.v ELSE "[object Object]"

applySmitheryConfig(g, config) ==
  LET set(e, key, var) == IF Truthy(config, key) THEN [e EXCEPT ![var] = AsString(config[key])] ELSE e
  IN  [g EXCEPT !.env =
         set(set(set(set(g.env, "pocketbaseUrl", "POCKETBASE_URL"),
                     "pocketbaseEmail", "POCKETBASE_EMAIL"),
                 "pocketbasePassword", "POCKETBASE_PASSWORD"),
             "defaultCollection", "DOCUMENTS_COLLECTION")]

\* the query-parameter block without its configInitialized = false: the
\* overrides reach process.env only, which C5 rules out
handleSmitheryQueryNoReset(g, query) ==
  IF DOMAIN query # {}
  THEN initializeConfig(debugLog(applySmitheryConfig(g, parseSmitheryConfig(query))))
  ELSE g

\* the query-parameter block rebuilding the Configuration only when an
\* override changed process.env, which C37 rules out
handleSmitheryQueryWhenChanged(g, query) ==
  LET g1 == debugLog(applySmitheryConfig(g, parseSmitheryConfig(query)))
  IN  IF DOMAIN query # {} /\ g1.env # g.env THEN initializeConfig(Invalidate(g1))
      ELSE IF DOMAIN query # {} THEN g1 ELSE g

\* the query-parameter block at the head of the /mcp and /sse handlers
handleSmitheryQuery(g, query) ==
  IF DOMAIN query # {}
  THEN initializeConfig(Invalidate(debugLog(applySmitheryConfig(g, parseSmitheryConfig(query)))))
  ELSE g

\* ------------------------------------------------------------------ the store
\* A record of the store; the id of a new record is the least one that no
\* record of the store has, and created is the logical time of its creation.
Doc(id, coll, url, content, updated) ==
  [id |-> id, coll |-> coll, url |-> url, content |-> content, updated |-> updated,
   created |-> id]

NextId(ds) ==
  CHOOSE i \in 1..(Cardinality(ds) + 1) :
    /\ i \notin {d.id : d \in ds}
    /\ \A j \in 1..(i - 1) : j \in {d.id : d \in ds}

\* The store answers a call when the client's endpoint is reachable; a data
\* call also needs the superuser token the client held when it sent the call.
Reachable(c) == clients[c].baseUrl \in ReachableUrls
CredentialsOk(email, password) == email = AdminEmail /\ password = AdminPassword

\* a lookup whose filter names another field than metadata.url: it finds no
\* record of the URL, which C1 rules out
MatchingContent(coll, url) == {d \in docs : d.coll = coll /\ d.content = url}

\* pb.collection(coll).getList(1, 1, {filter: metadata.url = url}).items
Matching(coll, url) == {d \in docs : d.coll = coll /\ d.url = url}

\* ----------------------------------------------------------------- the URLs
\* A URL is its text and the segments between the slashes after the scheme;
\* a trailing slash leaves an empty last segment.
UrlLearn == [text |-> "https://learn.microsoft.com/a", segs |-> <<"learn.microsoft.com", "a">>]
UrlOther == [text |-> "https://example.com/a", segs |-> <<"example.com", "a">>]
Urls == {UrlLearn, UrlOther}
NoUrl == [text |-> "", segs |-> << >>]

\* code-hosting URLs: a file, a directory, a raw file, a repository, a
\* directory below a directory named blob, a directory of a repository named
\* learn.microsoft.com, and the site alone
UrlBlob ==
  [text |-> "https://github.com/o/r/blob/main/f.md",
   segs |-> <<"github.com", "o", "r", "blob", "main", "f.md">>]
UrlTree ==
  [text |-> "https://github.com/o/r/tree/main/d",
   segs |-> <<"github.com", "o", "r", "tree", "main", "d">>]
UrlRaw ==
  [text |-> "https://raw.githubusercontent.com/o/r/dev/f.md",
   segs |-> <<"raw.githubusercontent.com", "o", "r", "dev", "f.md">>]
UrlRepo == [text |-> "https://github.com/o/r", segs |-> <<"github.com", "o", "r">>]
UrlTreeBlob ==
  [text |-> "https://github.com/o/r/tree/main/blob/d",
   segs |-> <<"github.com", "o", "r", "tree", "main", "blob", "d">>]
UrlTreeLearn ==
  [text |-> "https://github.com/o/learn.microsoft.com/tree/main/d",
   segs |-> <<"github.com", "o", "learn.microsoft.com", "tree", "main", "d">>]
UrlSite == [text |-> "https://github.com", segs |-> <<"github.com">>]
GitHubUrls == {UrlBlob, UrlTree, UrlRaw, UrlRepo, UrlTreeBlob, UrlTreeLearn, UrlSite}

\* the URLs that point at a directory of a repository
DirectoryUrls == {UrlTree, UrlTreeBlob, UrlTreeLearn}

\* the segment that a substring of the form /x/ names
Between(s) ==
  CASE s = "/tree/" -> "tree" [] s = "/blob/" -> "blob" [] s = "/main/" -> "main"
    [] s = "/master/" -> "master" [] OTHER -> ""

\* String.prototype.includes on the segments: /x/ is a segment x with a
\* slash on both sides, any other string is a whole segment
includesSegs(segs, s) ==
  IF Between(s) # ""
  THEN \E i \in 2..(Len(segs) - 1) : segs[i] = Between(s)
  ELSE \E i \in 1..Len(segs) : segs[i] = s
includes(url, s) == includesSegs(url.segs, s)

\* String.prototype.replace: the first occurrence of old becomes new
replaceHost(segs, old, new) ==
  IF \E i \in 1..Len(segs) : segs[i] = old
  THEN LET i == CHOOSE i \in 1..Len(segs) :
                  segs[i] = old /\ \A j \in 1..(i - 1) : segs[j] # old
       IN  [segs EXCEPT ![i] = new]
  ELSE segs

\* replace('/x/', '/y/'), and replace('/x/', '/') when new is empty
replaceBetween(segs, old, new) ==
  IF includesSegs(segs, old)
  THEN LET i == CHOOSE i \in 2..(Len(segs) - 1) :
                  segs[i] = Between(old) /\ \A j \in 2..(i - 1) : segs[j] # Between(old)
       IN  IF new = ""
           THEN SubSeq(segs, 1, i - 1) \o SubSeq(segs, i + 1, Len(segs))
           ELSE [segs EXCEPT ![i] = Between(new)]
  ELSE segs

\* the timeout option of the fetch calls that have one, in milliseconds
FetchTimeout == 30000
\* a fetch call without a timeout option
NoTimeout == 0

\* extractFromGitHub from "Handle different GitHub URL formats" to the fetch:
\* the raw URL, or the error thrown
rawUrlOf(url) ==
  IF includes(url, "/blob/")
  THEN [error |-> "",
        rawUrl |-> replaceBetween(replaceHost(url.segs, "github.com",
                                              "raw.githubusercontent.com"), "/blob/", "")]
  ELSE IF includes(url, "/tree/")
  THEN [error |-> "Directory URLs not supported", rawUrl |-> << >>]
  ELSE IF includes(url, "raw.githubusercontent.com")
  THEN [error |-> "", rawUrl |-> url.segs]
  ELSE IF \E i \in 1..(Len(url.segs) - 2) : url.segs[i] = "github.com"
  THEN LET i == CHOOSE i \in 1..(Len(url.segs) - 2) :
                  url.segs[i] = "github.com" /\ \A j \in 1..(i - 1) : url.segs[j] # "github.com"
       IN  [error |-> "",
            rawUrl |-> <<"raw.githubusercontent.com", url.segs[i + 1], url.segs[i + 2],
                         "main", "README.md">>]
  ELSE [error |-> "Invalid GitHub URL format", rawUrl |-> << >>]

\* a fetch call: the URL it names, its timeout option, how it settled and the
\* body of its response
Fetch(segs, timeout) ==
  [url |-> segs, timeout |-> timeout, status |-> "pending", body |-> ""]

\* what a content fetch can return
Contents == {"c1", "c2"}

\* ------------------------------------------------------------ tool invocations
Tools == {"extract_document", "connection_status"}

NoCall == [pb |-> 0, coll |-> "", auth |-> FALSE, email |-> "", password |-> ""]
NoRes ==
  [status |-> "none", isUpdate |-> FALSE, id |-> 0, content |-> "", error |-> "",
   created |-> FALSE]

Idle ==
  [ pc |-> "idle", tool |-> "", k |-> "", url |-> NoUrl, call |-> NoCall,
    content |-> "", extracted |-> FALSE, existing |-> -1, writes |-> << >>,
    cfgAtStart |-> FALSE, sid |-> "", res |-> NoRes,
    rawUrl |-> << >>, fetches |-> << >>, lookups |-> 0, ro |-> FALSE ]

\* the handler returns its result
OkResult(task, isUpdate, id, content) ==
  [task EXCEPT !.pc = "done", !.call = NoCall,
               !.res = [status |-> "ok", isUpdate |-> isUpdate, id |-> id,
                        content |-> content, error |-> "", created |-> FALSE]]

\* a handler whose error escapes it: the invocation ends without a result,
\* which C17 rules out
ErrorResultUncaught(task, message) == [task EXCEPT !.pc = "done", !.call = NoCall]

\* the catch block of a tool handler: the error becomes the result
ErrorResult(task, message) ==
  [task EXCEPT !.pc = "done", !.call = NoCall,
               !.res = [NoRes EXCEPT !.status = "error", !.error = message]]

\* authenticateWhenNeeded throws: connection_status reports it in its text,
\* every other handler returns the error
authFailed(task, message) ==
  IF task.tool = "connection_status"
  THEN [OkResult(task, FALSE, 0, "") EXCEPT !.res.error = message]
  ELSE ErrorResult(task, message)

\* a store call sent on the current client, against the current collection
DataCall(g) ==
  [NoCall EXCEPT !.pb = g.pb, !.coll = g.DOCUMENTS_COLLECTION,
                 !.auth = g.clients[g.pb].isValid]

\* authenticateWhenNeeded sending authWithPassword whatever the credentials
\* are, which C38 rules out
authenticateWithPasswordUnchecked(g, task) ==
  LET email == Or(g.env.POCKETBASE_EMAIL, g.env.POCKETBASE_ADMIN_EMAIL)
      password == Or(g.env.POCKETBASE_PASSWORD, g.env.POCKETBASE_ADMIN_PASSWORD)
  IN  [g |-> g,
       task |-> [task EXCEPT !.pc = "auth",
                   !.call = [NoCall EXCEPT !.pb = g.pb, !.email = email,
                                           !.password = password]]]

\* authenticateWhenNeeded from "Authenticate as superuser": the credentials are
\* read, and either the function throws or authWithPassword is awaited
authenticateWithPassword(g, task) ==
  LET email == Or(g.env.POCKETBASE_EMAIL, g.env.POCKETBASE_ADMIN_EMAIL)
      password == Or(g.env.POCKETBASE_PASSWORD, g.env.POCKETBASE_ADMIN_PASSWORD)
  IN  IF email = "" \/ password = ""
      THEN [g |-> g, task |-> authFailed(task, "credentials not configured")]
      ELSE [g |-> g,
            task |-> [task EXCEPT !.pc = "auth",
                        !.call = [NoCall EXCEPT !.pb = g.pb, !.email = email,
                                                !.password = password]]]

\* authenticateWhenNeeded below its initializeConfig, up to its first await
authenticateInitialized(g, task) ==
  IF g.clients[g.pb].isValid
  THEN [g |-> g, task |-> [task EXCEPT !.pc = "refresh", !.call = DataCall(g)]]
  ELSE authenticateWithPassword(g, task)

\* authenticateWhenNeeded failing instead of initializing: the ConfigNotReady
\* reader that C8 sets against the code
authenticateWhenNeededStrict(g, task, k) ==
  IF g.pb = 0 THEN [g |-> g, task |-> ErrorResult(task, "ConfigNotReady")]
  ELSE authenticateInitialized(g, [task EXCEPT !.k = k])

\* authenticateWhenNeeded up to its first await; k is where the caller goes on
\* once it returns true
authenticateWhenNeeded(g, task, k) ==
  authenticateInitialized(IF g.pb = 0 THEN initializeConfig(g) ELSE g,
                          [task EXCEPT !.k = k])

\* storeDocument from "Ensure configuration is initialized" to the getList call
storeDocumentLookup(g, task) ==
  LET g1 == IF g.DOCUMENTS_COLLECTION = "" THEN initializeConfig(g) ELSE g
  IN  [g |-> g1, task |-> [task EXCEPT !.pc = "list", !.call = DataCall(g1),
                                       !.lookups = task.lookups + 1]]

\* storeDocument ignoring the items it looked up: every ingest creates, which
\* C2 rules out
storeDocumentWriteCreates(g, task, items) ==
  [task EXCEPT !.pc = "create", !.call = DataCall(g), !.existing = 0,
               !.writes = Append(task.writes, "create")]

\* storeDocument sending an update and a create for one ingest, which C3 rules
\* out
storeDocumentWriteBoth(g, task, items) ==
  [task EXCEPT !.pc = "create", !.call = DataCall(g), !.existing = 0,
               !.writes = task.writes \o << "update", "create" >>]

\* storeDocument after getList returned items: the update or the create is sent
storeDocumentWrite(g, task, items) ==
  IF items # {}
  THEN [task EXCEPT !.pc = "update", !.call = DataCall(g),
                    !.existing = (CHOOSE d \in items : TRUE).id,
                    !.writes = Append(task.writes, "update")]
  ELSE [task EXCEPT !.pc = "create", !.call = DataCall(g), !.existing = 0,
                    !.writes = Append(task.writes, "create")]

\* the extract_document handler after its authenticateWhenNeeded: the URL is
\* dispatched to an extractor, which sends its fetch
extractDispatch(g, task) ==
  IF includes(task.url, "learn.microsoft.com")
  THEN [g |-> g, task |-> [task EXCEPT !.pc = "fetch", !.call = NoCall,
                                      !.fetches = <<Fetch(task.url.segs, FetchTimeout)>>]]
  ELSE IF includes(task.url, "github.com") \/ includes(task.url, "raw.githubusercontent.com")
  THEN LET r == rawUrlOf(task.url)
       IN  IF r.error # ""
           THEN [g |-> g, task |-> ErrorResult(task, r.error)]
           ELSE [g |-> g, task |-> [task EXCEPT !.pc = "fetch", !.call = NoCall,
                                               !.rawUrl = r.rawUrl,
                                               !.fetches = <<Fetch(r.rawUrl, FetchTimeout)>>]]
  ELSE [g |-> g, task |-> ErrorResult(task, "Unsupported URL")]

\* an extractor that fetches the same URL again after a failed fetch, which
\* C23 rules out
afterFetchFailedRetrying(task, body) ==
  [task EXCEPT !.fetches = Append([task.fetches EXCEPT ![Len(task.fetches)].status = "failed"],
                                  Fetch(task.fetches[Len(task.fetches)].url, FetchTimeout))]

\* an extractor after its fetch returned a response that is not ok, whose body
\* is body: extractFromGitHub fetches the master branch when the raw URL
\* names main, and any other fetch fails the extraction
afterFetchFailed(task, body) ==
  LET failed == [task EXCEPT !.fetches[Len(task.fetches)].status = "failed",
                             !.fetches[Len(task.fetches)].body = body]
  IN  IF task.rawUrl # << >> /\ includesSegs(task.rawUrl, "/main/")
      THEN [failed EXCEPT !.pc = "fetch_master", !.content = body,
                          !.fetches = Append(failed.fetches,
                                        Fetch(replaceBetween(task.rawUrl, "/main/", "/master/"),
                                              NoTimeout))]
      ELSE ErrorResult(failed, "Failed to extract")

\* connection_status after its authenticateWhenNeeded
statusAfterAuth(g, task) ==
  IF g.pb # 0 /\ g.clients[g.pb].isValid
  THEN [g |-> g, task |-> [task EXCEPT !.pc = "cs_collections", !.call = DataCall(g)]]
  ELSE [g |-> g, task |-> OkResult(task, FALSE, 0, "")]

\* the id argument of delete_document and the record of the store it names
DocArg(n) == [text |-> IF n = 1 THEN "d1" ELSE "d2", segs |-> << >>]
IdOf(arg) == IF arg.text = "d1" THEN 1 ELSE IF arg.text = "d2" THEN 2 ELSE 0

\* deleteDocument from its initializeConfig to the delete call
deleteCall(g, task) ==
  LET g1 == IF g.DOCUMENTS_COLLECTION = "" THEN initializeConfig(g) ELSE g
  IN  [g |-> g1, task |-> [task EXCEPT !.pc = "delete", !.call = DataCall(g1)]]

\* ensureCollectionExists from "Ensure we have the collection name" to the
\* getOne call
ensureLookup(g, task) ==
  LET g1 == IF g.DOCUMENTS_COLLECTION = "" THEN initializeConfig(g) ELSE g
  IN  [g |-> g1, task |-> [task EXCEPT !.pc = "ec_getOne", !.call = DataCall(g1)]]

\* the result of ensure_collection: the collection's name and whether this
\* call created it
EnsureResult(task, name, created) ==
  [OkResult(task, FALSE, 0, name) EXCEPT !.res.created = created]

\* getOne answered by reporting every collection as newly created
afterGetOneCreated(g, task, outcome) ==
  IF outcome = "found" THEN [g |-> debugLog(g), task |-> EnsureResult(task, task.call.coll, TRUE)]
  ELSE IF outcome = "404"
  THEN [g |-> debugLog(g), task |-> [task EXCEPT !.pc = "ec_create", !.call = DataCall(g)]]
  ELSE [g |-> debugLog(g), task |-> ErrorResult(task, "Failed to ensure collection exists")]

\* ensureCollectionExists once getOne has settled: the collection is reported
\* as existing, or a 404 leads to collections.create with the schema named by
\* the current DOCUMENTS_COLLECTION, or the error is rethrown
afterGetOne(g, task, outcome) ==
  IF outcome = "found" THEN [g |-> debugLog(g), task |-> EnsureResult(task, task.call.coll, FALSE)]
  ELSE IF outcome = "404"
  THEN [g |-> debugLog(g), task |-> [task EXCEPT !.pc = "ec_create", !.call = DataCall(g)]]
  ELSE [g |-> debugLog(g), task |-> ErrorResult(task, "Failed to ensure collection exists")]

\* where a handler goes on when authenticateWhenNeeded has returned true
afterAuth(g, task) ==
  IF task.k = "store" THEN storeDocumentLookup(g, task)
  ELSE IF task.k = "ensure" THEN ensureLookup(g, task)
  ELSE IF task.k = "delete" THEN deleteCall(g, task)
  ELSE IF task.tool = "delete_document" THEN authenticateWhenNeeded(g, task, "delete")
  ELSE IF task.tool = "ensure_collection" THEN authenticateWhenNeeded(g, task, "ensure")
  ELSE IF task.tool = "extract_document" THEN extractDispatch(g, task)
  ELSE statusAfterAuth(g, task)

\* a tool handler from its entry to its first await
startTool(g, tool, url) ==
  LET task == [Idle EXCEPT !.tool = tool, !.url = url, !.cfgAtStart = g.configInitialized]
  IN  IF tool \in {"extract_document", "ensure_collection", "delete_document"}
      THEN authenticateWhenNeeded(g, task, "handler")
      ELSE \* connection_status
        LET g1 == initializeConfig(g)
        IN  IF g1.env.POCKETBASE_URL # "" /\ g1.env.POCKETBASE_EMAIL # ""
            THEN authenticateWhenNeeded(g1, task, "handler")
            ELSE [g |-> g1, task |-> OkResult(task, FALSE, 0, "")]

\* a tool listing that authenticates first, which C10 rules out
listToolsAuthenticating(g, task) ==
  LET r == authenticateWhenNeeded(g, Idle, "handler")
  IN  [g |-> r.g, task |-> r.task, listed |-> r.task.res.status # "error"]

\* listing the tools createServer registered: no handler runs
listTools(g, task) == [g |-> g, task |-> task, listed |-> TRUE]

\* ------------------------------------------------------------------- requests
Methods == {"initialize", "tools/list", "tools/call"}
GetOneOutcomes == {"found", "404", "failed"}
\* the body of a response that is not a health report
NoHealth == [initialized |-> FALSE, streamableHttp |-> 0, sse |-> 0]
NoResp == [method |-> "", given |-> "", sid |-> "", reused |-> FALSE, wasInit |-> FALSE,
           code |-> 0, rpc |-> 0, result |-> "", query |-> EmptyQuery, health |-> NoHealth]

\* the authenticate handler before its invocation
NoAuthenticate ==
  [pc |-> "idle", pocketbaseUrl |-> "", email |-> "", password |-> "", sid |-> "",
   res |-> "none"]

\* no McpServer has been created for stdio
NoServer == [created |-> FALSE, readOnly |-> FALSE]

\* createServer(): the write tools are disabled when READ_ONLY_MODE is 'true'
\* in process.env at that time
createServer(g) == [created |-> TRUE, readOnly |-> g.env.READ_ONLY_MODE = "true"]

\* a transport object: the key its close handler deletes, the session id it
\* advertises to its caller, the close and error events it has emitted, and
\* whether the McpServer created for it has its write tools disabled
Transport(kind, key, advertised, srv) ==
  [kind |-> kind, key |-> key, advertised |-> advertised, open |-> TRUE,
   closeFired |-> FALSE, errorFired |-> FALSE, readOnly |-> srv.readOnly]

\* the session lookup that reuses initialized sessions only
RegisteredInitialized(sid) ==
  sid # "" /\ sid \in DOMAIN transports /\ transports[sid].initialized

\* the session lookup that finds nothing
RegisteredNever(sid) == FALSE

\* sessionId && transports.streamable[sessionId]
Registered(sid) == sid # "" /\ sid \in DOMAIN transports

\* a catch block that reports every failure as an internal error, which C20
\* rules out
mcpErrorCodeInternal(message) == -32603

\* a close handler that deletes nothing, which C14 rules out
oncloseKeeps(registry, key) == registry

\* delete transports[key], as the close and error handlers do
onclose(registry, key) == [k \in DOMAIN registry \ {key} |-> registry[k]]

\* error code and message of the /mcp handler's catch block
mcpErrorCode(message) ==
  IF "transport" \in message THEN -32001
  ELSE IF "Server not initialized" \in message THEN -32000
  ELSE -32603

\* a request is dispatched to the McpServer: the tool list, or a tool handler
\* run to its first await
WriteTools == {"extract_document", "delete_document", "ensure_collection"}

\* every registered tool answering calls, also on a read-only server
toolEnabledAlways(srv, tool) == TRUE

\* a tool answers calls unless createServer() disabled it
toolEnabled(srv, tool) == ~(srv.readOnly /\ tool \in WriteTools)

\* a request is dispatched to the McpServer srv: the tool list, or a tool
\* handler run to its first await, or the refusal of a disabled tool
dispatch(srv, g, method, tool, url, task) ==
  IF method # "tools/call" THEN listTools(g, task)
  ELSE IF toolEnabled(srv, tool)
  THEN LET r == startTool(g, tool, url)
       IN  [g |-> r.g, task |-> [r.task EXCEPT !.ro = srv.readOnly]]
  ELSE [g |-> g,
        task |-> [ErrorResult([Idle EXCEPT !.tool = tool, !.url = url], "Tool disabled")
                    EXCEPT !.ro = srv.readOnly]]

\* the store's collections when the process starts
StoreCollections == {DefaultCollection, "x"}

\* ------------------------------------------- the documentation-site extractor
\* the locators of the main content, in the order they are tried
contentSelectors ==
  << "[data-bi-name=content]", ".content", "main article", ".markdown-body",
     "main .content", "article", "main" >>

\* content.length > MinWalkLength ends the walk; a cleaned content shorter
\* than MinContentLength is insufficient
MinWalkLength == 100
MinContentLength == 50

\* The text of a matched element: its name, its length once trimmed, and its
\* length once runs of whitespace are collapsed. NoMatch is a locator that
\* matches no element, NoText the empty content.
NoMatch == [s |-> "none", length |-> -1, clean |-> -1]
NoText == [s |-> "", length |-> 0, clean |-> 0]
Texts ==
  { [s |-> "short", length |-> 40, clean |-> 40],
    [s |-> "medium", length |-> 80, clean |-> 80],
    [s |-> "long", length |-> 150, clean |-> 150],
    [s |-> "padded", length |-> 150, clean |-> 30] }
Pages == [DOMAIN contentSelectors -> Texts \cup {NoMatch}]
NoHtml == [i \in DOMAIN contentSelectors |-> NoMatch]
NoDocData == [status |-> "none", content |-> NoText]

\* the loop over contentSelectors from selector i on, content being the text
\* kept so far
RECURSIVE walkSelectors(_, _, _)
walkSelectors(page, i, content) ==
  IF i > Len(contentSelectors) THEN content
  ELSE IF page[i] # NoMatch
  THEN IF page[i].length > MinWalkLength THEN page[i]
       ELSE walkSelectors(page, i + 1, page[i])
  ELSE walkSelectors(page, i + 1, content)

\* content.replace(/\s+/g, ' ').trim()
cleanUp(content) == [content EXCEPT !.length = content.clean]

\* an extractor that fails whenever no locator's text ended the walk, which
\* C26 sets against the code
extractContentStrict(page) ==
  LET content == cleanUp(walkSelectors(page, 1, NoText))
  IN  IF \A i \in DOMAIN page : page[i] = NoMatch \/ page[i].length <= MinWalkLength
      THEN [status |-> "error", content |-> NoText]
      ELSE [status |-> "ok", content |-> content]

\* extractFromMicrosoftLearn from "Extract main content" to the check of the
\* cleaned content
extractContent(page) ==
  LET content == cleanUp(walkSelectors(page, 1, NoText))
  IN  IF content.s = "" \/ content.length < MinContentLength
      THEN [status |-> "error", content |-> NoText]
      ELSE [status |-> "ok", content |-> content]

\* every variable but the extractor's page
InitCore ==
  /\ dotenvInitialized = FALSE
  /\ pb = 0
  /\ DOCUMENTS_COLLECTION = ""
  /\ DEBUG = "null"
  /\ HTTP_PORT = 0
  /\ configInitialized = FALSE
  /\ clients = << >>
  /\ initCalls = 0
  /\ snap = NoSnap
  /\ started = "no"
  /\ transports = << >>
  /\ tasks = [t \in Tasks |-> Idle]
  /\ resp = NoResp
  /\ touched = FALSE
  /\ override = EmptyQuery
  /\ raced = FALSE
  /\ objs = << >>
  /\ sse = << >>
  /\ authenticate = NoAuthenticate
  /\ server = NoServer
  /\ docData = NoDocData
  /\ console = {}

Init ==
  /\ InitCore
  /\ docs = {}
  /\ env \in InitEnvs
  /\ dotenvFile \in DotEnvFiles
  /\ collections = StoreCollections
  /\ html = NoHtml

\* main(): the transport mode is read and the server is started; in stdio
\* mode the McpServer is created here
Main ==
  /\ started = "no"
  /\ LET mode == Or(env.TRANSPORT_MODE, "stdio")
         g == IF mode = "http" /\ HTTP_PORT = 0 THEN initializeConfig(G) ELSE G
     IN  /\ started' = mode
         /\ SetG(g)
         /\ server' = IF mode = "http" THEN server ELSE createServer(g)
  /\ UNCHANGED << transports, tasks, docs, resp, touched, override, raced, objs, sse, authenticate,
                  collections, html, docData, console >>

\* the documentation-site extractor is given the page html
ExtractContent ==
  /\ docData = NoDocData
  /\ docData' = extractContent(html)
  /\ UNCHANGED << cfgVars, started, transports, tasks, docs, resp, touched, override, raced,
                  objs, sse, authenticate, collections, server, html, console >>

\* app.all('/mcp'): one request, from its arrival to the first await on I/O.
\* est is the step of the handler that throws: "construct" (new
\* StreamableHTTPServerTransport), "connect" (server.connect) or "handle"
\* (transport.handleRequest), or "ok" when none does.
McpHandler(query, sid, method, tool, url, t, est) ==
  /\ started = "http"
  /\ method = "tools/call" => tasks[t].pc = "idle"
  /\ LET g1 == handleSmitheryQuery(debugLog(G), query)
         reused == Registered(sid)
     IN  /\ reused => est \in {"ok", "handle"}
         /\ ~reused => Len(objs) < MaxTransports
         /\ \E uuid \in IF reused \/ sid # "" THEN {sid} ELSE SessionIds \ DOMAIN transports :
           LET newSessionId == IF sid # "" THEN sid ELSE uuid
               id == IF reused THEN sid ELSE newSessionId
               obj == Len(objs) + 1
               built == IF reused \/ est = "construct" THEN objs
                        ELSE Append(objs, Transport("streamable", id, id, createServer(g1)))
               registry == IF reused \/ est = "construct" THEN transports
                           ELSE (id :> [initialized |-> FALSE, obj |-> obj,
                                        connected |-> est # "connect"]) @@ transports
               wasInit == est # "construct" /\ registry[id].initialized
               answer(code, rpc, result) ==
                 [method |-> method, given |-> sid, sid |-> id, reused |-> reused,
                  wasInit |-> wasInit,
                  code |-> code, rpc |-> rpc, result |-> result, query |-> query,
                  health |-> NoHealth]
               quiet == /\ SetG(g1)
                        /\ Len(g1.clients) <= MaxClients
                        /\ UNCHANGED tasks
           IN  IF est \in {"construct", "connect"}
               THEN \* the catch block: Failed to create transport
                    /\ quiet
                    /\ transports' = registry
                    /\ objs' = built
                    /\ resp' = answer(500, mcpErrorCode({"Failed to create", "transport"}),
                                      "Transport initialization failed")
               ELSE IF est = "handle"
               THEN \* the catch block: transport.handleRequest threw
                    /\ quiet
                    /\ transports' = registry
                    /\ objs' = built
                    /\ resp' = answer(500, mcpErrorCode({"socket"}), "socket")
               ELSE \* transport.handleRequest
               IF method = "initialize"
               THEN /\ quiet
                    /\ objs' = built
                    /\ IF wasInit
                       THEN /\ transports' = registry
                            /\ resp' = answer(400, -32600, "Server already initialized")
                       ELSE /\ transports' = [registry EXCEPT ![id].initialized = TRUE]
                            /\ resp' = IF registry[id].connected
                                       THEN answer(200, 0, "initialized")
                                       ELSE answer(0, 0, "no response")
               ELSE IF ~wasInit \/ sid = ""
               THEN /\ quiet
                    /\ objs' = built
                    /\ transports' = registry
                    /\ resp' = answer(400, -32000, "Server not initialized")
               ELSE IF method = "DELETE"
               THEN \* transport.close() calls transport.onclose
                    /\ quiet
                    /\ objs' = [built EXCEPT ![registry[id].obj].open = FALSE,
                                             ![registry[id].obj].closeFired = TRUE]
                    /\ transports' = onclose(registry, built[registry[id].obj].key)
                    /\ resp' = answer(200, 0, "closed")
               ELSE IF ~registry[id].connected
               THEN /\ quiet
                    /\ objs' = built
                    /\ transports' = registry
                    /\ resp' = answer(0, 0, "no response")
               ELSE LET r == dispatch(built[registry[id].obj], g1, method, tool, url, tasks[t])
                    IN  /\ SetG(r.g)
                        /\ Len(r.g.clients) <= MaxClients
                        /\ tasks' = [tasks EXCEPT ![t] =
                                       IF method = "tools/call"
                                       THEN [r.task EXCEPT !.sid = id] ELSE r.task]
                        /\ objs' = built
                        /\ transports' = registry
                        /\ resp' = IF method = "tools/list"
                                   THEN IF r.listed THEN answer(200, 0, "tools")
                                        ELSE answer(500, -32603, r.task.res.error)
                                   ELSE answer(200, 0, "called")
  /\ touched' = (touched \/ DOMAIN query # {} \/ method = "tools/call")
  /\ override' = IF DOMAIN query # {} THEN query ELSE override
  /\ console' = console \cup debugLogData(G, QueryValues(query) \cup BodyValues(method, url))
  /\ UNCHANGED << started, docs, raced, sse, authenticate,
                  collections, server, html, docData >>

\* a /mcp request whose session, when it needs one, is established
McpRequest(query, sid, method, tool, url, t) ==
  McpHandler(query, sid, method, tool, url, t, "ok")

\* the passwords a caller of the authenticate tool passes
WrongPassword == "wrong"

\* the authenticate tool updating process.env only, without the reload that
\* C18 depends on
authenticateSucceededNoReload(g, a) ==
  [g EXCEPT !.env.POCKETBASE_URL = a.pocketbaseUrl, !.env.POCKETBASE_EMAIL = a.email,
            !.env.POCKETBASE_PASSWORD = a.password]

\* the authenticate tool after its three store calls succeeded: the
\* credentials become the process's and the Configuration is rebuilt
authenticateSucceeded(g, a) ==
  initializeConfig(
    [Invalidate([g EXCEPT !.env.POCKETBASE_URL = a.pocketbaseUrl,
                          !.env.POCKETBASE_EMAIL = a.email,
                          !.env.POCKETBASE_PASSWORD = a.password])
       EXCEPT !.pb = 0])

\* an authenticate tool that writes the endpoint it was given before its
\* checks have passed, which C35 rules out
authenticateFailedPartial(g, a) == [g EXCEPT !.env.POCKETBASE_URL = a.pocketbaseUrl]

\* the catch block of the authenticate tool: the error is returned and the
\* module-level state is as it was
authenticateFailed(g, a) == g

\* a tools/call of the authenticate tool on the established session sid of
\* /mcp: testPb is constructed and its authWithPassword is awaited
AuthenticateCall(sid, pocketbaseUrl, email, password) ==
  /\ started = "http"
  /\ authenticate.pc = "idle"
  /\ Registered(sid) /\ transports[sid].initialized /\ transports[sid].connected
  /\ authenticate' = [NoAuthenticate EXCEPT !.pc = "auth", !.pocketbaseUrl = pocketbaseUrl,
                                            !.email = email, !.password = password,
                                            !.sid = sid]
  /\ SetG(debugLog(G))
  /\ resp' = [NoResp EXCEPT !.method = "tools/call", !.given = sid, !.sid = sid,
                            !.reused = TRUE, !.wasInit = TRUE, !.code = 200,
                            !.result = "called"]
  /\ touched' = TRUE
  /\ console' = console \cup debugLogData(G, {pocketbaseUrl, email, password})
  /\ UNCHANGED << started, transports, tasks, docs, override, raced, objs, sse,
                  collections, server, html, docData >>

\* a store call of the authenticate tool has settled: authWithPassword, then
\* collections.getList, then health.check; a failure is caught and returned
\* with isError
AuthenticateDone(ok) ==
  LET a == authenticate
  IN  /\ a.pc \in {"auth", "collections", "health"}
      /\ ok => /\ a.pocketbaseUrl \in ReachableUrls
               /\ CredentialsOk(a.email, a.password)
      /\ IF ~ok
         THEN /\ authenticate' = [a EXCEPT !.pc = "done", !.res = "error"]
              /\ SetG(authenticateFailed(G, a))
         ELSE IF a.pc = "auth"
         THEN /\ authenticate' = [a EXCEPT !.pc = "collections"]
              /\ SetG(G)
         ELSE IF a.pc = "collections"
         THEN /\ authenticate' = [a EXCEPT !.pc = "health"]
              /\ SetG(G)
         ELSE /\ authenticate' = [a EXCEPT !.pc = "done", !.res = "ok"]
              /\ SetG(authenticateSucceeded(G, a))
              /\ Len(clients) < MaxClients
      /\ UNCHANGED << started, transports, tasks, docs, resp, touched, override, raced,
                      objs, sse,
                      collections, server, html, docData, console >>

\* a message on the stdio transport main() connected
StdioRequest(method, tool, url, t) ==
  /\ started = "stdio"
  /\ method # "initialize"
  /\ method = "tools/call" => tasks[t].pc = "idle"
  /\ LET r == dispatch(server, G, method, tool, url, tasks[t])
     IN  /\ SetG(r.g)
         /\ Len(r.g.clients) <= MaxClients
         /\ tasks' = [tasks EXCEPT ![t] = r.task]
         /\ resp' = [NoResp EXCEPT !.method = method, !.reused = TRUE,
                                   !.wasInit = TRUE,
                                   !.code = IF method = "tools/list" /\ ~r.listed
                                            THEN 500 ELSE 200,
                                   !.result = IF method = "tools/list" THEN "tools" ELSE "called"]
  /\ touched' = (touched \/ method = "tools/call")
  /\ UNCHANGED << started, transports, docs, override, raced, objs, sse, authenticate,
                  collections, server, html, docData, console >>

\* the ids that randomUUID() has returned for SSE sessions
UsedSseIds == {objs[o].key : o \in 1..Len(objs)} \cup {objs[o].advertised : o \in 1..Len(objs)}

\* app.get('/sse'): the handler draws the registry key, the SSEServerTransport
\* draws the session id it advertises in its endpoint event
SseRequest(query) ==
  /\ started = "http"
  /\ Len(objs) < MaxTransports
  /\ LET g1 == handleSmitheryQuery(debugLog(G), query)
     IN  /\ SetG(debugLog(g1))
         /\ Len(g1.clients) <= MaxClients
         /\ \E sessionId \in SseIds \ UsedSseIds, own \in SseIds \ UsedSseIds :
               /\ sessionId # own
               /\ objs' = Append(objs, Transport("sse", sessionId, own, createServer(g1)))
               /\ sse' = (sessionId :> Len(objs) + 1) @@ sse
               /\ resp' = [NoResp EXCEPT !.method = "sse", !.sid = own, !.code = 200,
                                         !.result = "endpoint", !.query = query]
  /\ touched' = (touched \/ DOMAIN query # {})
  /\ override' = IF DOMAIN query # {} THEN query ELSE override
  /\ console' = console \cup debugLogData(G, QueryValues(query))
  /\ UNCHANGED << started, transports, tasks, docs, raced, authenticate,
                  collections, server, html, docData >>

\* /messages delivering without the lookup in transports.sse, which C16 rules
\* out
MessagesUnchecked(sessionId, method, tool, url, t) ==
  /\ started = "http"
  /\ method # "initialize"
  /\ method = "tools/call" => tasks[t].pc = "idle"
  /\ LET r == dispatch(NoServer, debugLog(G), method, tool, url, tasks[t])
     IN  /\ SetG(debugLog(r.g))
         /\ Len(r.g.clients) <= MaxClients
         /\ tasks' = [tasks EXCEPT ![t] =
                        IF method = "tools/call"
                        THEN [r.task EXCEPT !.sid = sessionId] ELSE r.task]
         /\ touched' = (touched \/ method = "tools/call")
         /\ resp' = [NoResp EXCEPT !.method = "messages", !.given = sessionId,
                                   !.sid = sessionId, !.code = 202, !.result = "Accepted",
                                   !.reused = sessionId \in DOMAIN sse]
  /\ console' = console \cup debugLogData(G, BodyValues(method, url))
  /\ UNCHANGED << started, transports, docs, override, raced, objs, sse, authenticate,
                  collections, server, html, docData >>

\* app.post('/messages'): a message for the SSE session sessionId
Messages(sessionId, method, tool, url, t) ==
  /\ started = "http"
  /\ method # "initialize"
  /\ method = "tools/call" => tasks[t].pc = "idle"
  /\ LET g1 == debugLog(G)
         answer(code, rpc, result) ==
           [NoResp EXCEPT !.method = "messages", !.given = sessionId,
                          !.sid = sessionId, !.code = code,
                          !.rpc = rpc, !.result = result,
                          !.reused = sessionId \in DOMAIN sse]
     IN  IF sessionId = ""
         THEN /\ SetG(g1)
              /\ UNCHANGED tasks
              /\ touched' = touched
              /\ resp' = answer(400, -32602, "Missing sessionId parameter")
         ELSE IF sessionId \in DOMAIN sse
         THEN \* transport.handlePostMessage
              LET r == dispatch(objs[sse[sessionId]], g1, method, tool, url, tasks[t])
              IN  /\ SetG(debugLog(r.g))
                  /\ Len(r.g.clients) <= MaxClients
                  /\ tasks' = [tasks EXCEPT ![t] =
                                 IF method = "tools/call"
                                 THEN [r.task EXCEPT !.sid = sessionId] ELSE r.task]
                  /\ touched' = (touched \/ method = "tools/call")
                  /\ resp' = answer(202, 0, "Accepted")
         ELSE /\ SetG(g1)
              /\ UNCHANGED tasks
              /\ touched' = touched
              /\ resp' = answer(404, -32001, "Session not found")
  /\ console' = console \cup debugLogData(G, BodyValues(method, url))
  /\ UNCHANGED << started, transports, docs, override, raced, objs, sse, authenticate,
                  collections, server, html, docData >>

\* a close handler that also ends the session's invocations, which C19 rules
\* out
SseCloseAborting(o) ==
  /\ o \in 1..Len(objs)
  /\ objs[o].kind = "sse"
  /\ ~objs[o].closeFired
  /\ sse' = onclose(sse, objs[o].key)
  /\ objs' = [objs EXCEPT ![o].open = FALSE, ![o].closeFired = TRUE]
  /\ SetG(debugLog(G))
  /\ tasks' = [t \in Tasks |->
                IF tasks[t].sid = objs[o].key /\ tasks[t].pc \notin {"idle", "done"}
                THEN ErrorResult(tasks[t], "aborted") ELSE tasks[t]]
  /\ UNCHANGED << started, transports, docs, resp, touched, override, raced, authenticate,
                  collections, server, html, docData, console >>

\* res.on('close') of an SSE session
SseClose(o) ==
  /\ o \in 1..Len(objs)
  /\ objs[o].kind = "sse"
  /\ ~objs[o].closeFired
  /\ sse' = onclose(sse, objs[o].key)
  /\ objs' = [objs EXCEPT ![o].open = FALSE, ![o].closeFired = TRUE]
  /\ SetG(debugLog(G))
  /\ UNCHANGED << started, transports, tasks, docs, resp, touched, override, raced,
                  authenticate,
                  collections, server, html, docData, console >>

\* res.on('error') of an SSE session; the stream's close event follows or
\* has preceded it
SseError(o) ==
  /\ o \in 1..Len(objs)
  /\ objs[o].kind = "sse"
  /\ ~objs[o].errorFired
  /\ sse' = onclose(sse, objs[o].key)
  /\ objs' = [objs EXCEPT ![o].open = FALSE, ![o].errorFired = TRUE]
  /\ SetG(debugLog(G))
  /\ UNCHANGED << started, transports, tasks, docs, resp, touched, override, raced,
                  authenticate,
                  collections, server, html, docData, console >>

\* the report of the /health handler
healthData(g, streamable, legacy) ==
  [initialized |-> g.configInitialized,
   streamableHttp |-> Cardinality(DOMAIN streamable), sse |-> Cardinality(DOMAIN legacy)]

\* a health handler that reloads the configuration before it reports, which
\* C27 rules out
HealthInitializing ==
  /\ started = "http"
  /\ LET g == initializeConfig(Invalidate(G))
     IN  /\ SetG(g)
         /\ Len(g.clients) <= MaxClients
         /\ resp' = [NoResp EXCEPT !.method = "health", !.code = 200, !.result = "healthy",
                                   !.health = healthData(g, transports, sse)]
  /\ UNCHANGED << started, transports, tasks, docs, touched, override, raced, objs, sse,
                  authenticate, collections, server, html, docData, console >>

\* app.get('/health')
Health ==
  /\ started = "http"
  /\ resp' = [NoResp EXCEPT !.method = "health", !.code = 200, !.result = "healthy",
                            !.health = healthData(G, transports, sse)]
  /\ UNCHANGED << cfgVars, started, transports, tasks, docs, touched, override, raced, objs,
                  sse, authenticate, collections, server, html, docData, console >>

\* ----------------------------------------------- handlers resumed after an await
Resume(t, r) ==
  /\ SetG(r.g)
  /\ Len(r.g.clients) <= MaxClients
  /\ tasks' = [tasks EXCEPT ![t] = r.task]

SetAuth(g, c, valid) == [g EXCEPT !.clients[c].isValid = valid]

\* pb.collection('_superusers').authRefresh() has settled
RefreshDone(t, ok) ==
  /\ tasks[t].pc = "refresh"
  /\ ok => Reachable(tasks[t].call.pb) /\ tasks[t].call.auth
  /\ IF ok
     THEN Resume(t, afterAuth(debugLog(SetAuth(G, tasks[t].call.pb, TRUE)), tasks[t]))
     ELSE Resume(t, authenticateWithPassword(SetAuth(debugLog(G), pb, FALSE), tasks[t]))
  /\ UNCHANGED << started, transports, docs, resp, touched, override, raced, objs, sse, authenticate,
                  collections, server, html, docData, console >>

\* pb.collection('_superusers').authWithPassword(email, password) has settled
AuthDone(t, ok) ==
  /\ tasks[t].pc = "auth"
  /\ ok => /\ Reachable(tasks[t].call.pb)
           /\ CredentialsOk(tasks[t].call.email, tasks[t].call.password)
  /\ IF ok
     THEN Resume(t, afterAuth(debugLog(SetAuth(G, tasks[t].call.pb, TRUE)), tasks[t]))
     ELSE Resume(t, [g |-> G, task |-> authFailed(tasks[t], "authentication failed")])
  /\ UNCHANGED << started, transports, docs, resp, touched, override, raced, objs, sse, authenticate,
                  collections, server, html, docData, console >>

\* the extractor's fetch has settled: the page is extracted, or the extractor
\* throws; storeDocument then runs to its first await
FetchDone(t, ok, content) ==
  /\ tasks[t].pc = "fetch"
  /\ IF ok
     THEN IF tasks[t].rawUrl # << >> /\ content = ""
          THEN Resume(t, [g |-> debugLog(G),
                          task |-> ErrorResult([tasks[t] EXCEPT !.fetches[1].status = "ok"],
                                               "No content found in the GitHub file")])
          ELSE Resume(t, authenticateWhenNeeded(debugLog(G),
                           [tasks[t] EXCEPT !.content = content, !.extracted = TRUE,
                                            !.fetches[1].status = "ok",
                                            !.fetches[1].body = content], "store"))
     ELSE Resume(t, [g |-> debugLog(G), task |-> afterFetchFailed(tasks[t], content)])
  /\ UNCHANGED << started, transports, docs, resp, touched, override, raced, objs, sse, authenticate,
                  collections, server, html, docData, console >>

\* the fetch of the master branch has settled; when it is ok the raw URL
\* becomes the master URL and the text is read from the first response
MasterFetchDone(t, ok, body) ==
  LET task == tasks[t]
      settled == [task EXCEPT !.fetches[2].status = IF ok THEN "ok" ELSE "failed",
                              !.fetches[2].body = body]
  IN  /\ task.pc = "fetch_master"
      /\ IF ~ok
         THEN Resume(t, [g |-> debugLog(G), task |-> ErrorResult(settled, "Failed to extract")])
         ELSE IF task.content = ""
         THEN Resume(t, [g |-> debugLog(G),
                         task |-> ErrorResult([settled EXCEPT !.rawUrl = task.fetches[2].url],
                                              "No content found in the GitHub file")])
         ELSE Resume(t, authenticateWhenNeeded(debugLog(G),
                          [settled EXCEPT !.rawUrl = task.fetches[2].url,
                                          !.extracted = TRUE], "store"))
      /\ UNCHANGED << started, transports, docs, resp, touched, override, raced, objs, sse,
                      authenticate,
                      collections, server, html, docData, console >>

\* The lookup that t is resumed from does not cover the write t sends next:
\* the collection was switched after the lookup was sent, or another ingest of
\* the same URL is suspended between its own lookup and its create there.
StaleLookup(t) ==
  \/ DOCUMENTS_COLLECTION # tasks[t].call.coll
  \/ \E o \in Tasks \ {t} :
        /\ tasks[o].pc = "create"
        /\ tasks[o].url = tasks[t].url
        /\ tasks[o].call.coll = tasks[t].call.coll

\* getList of storeDocument has settled
ListDone(t, ok) ==
  /\ tasks[t].pc = "list"
  /\ ok => Reachable(tasks[t].call.pb) /\ tasks[t].call.auth
  /\ IF ok
     THEN Resume(t, [g |-> G,
                     task |-> storeDocumentWrite(G, tasks[t],
                                Matching(tasks[t].call.coll, tasks[t].url.text))])
     ELSE Resume(t, [g |-> debugLog(G), task |-> ErrorResult(tasks[t], "Failed to store document")])
  /\ raced' = (raced \/ (ok /\ StaleLookup(t)))
  /\ UNCHANGED << started, transports, docs, resp, touched, override, objs, sse, authenticate,
                  collections, server, html, docData, console >>

\* an update that sends a created timestamp with its fields
updateRecordRestamped(d, task) ==
  [d EXCEPT !.url = task.url.text, !.content = task.content, !.updated = TRUE,
            !.created = 0]

\* the record after update(id, {title, content, metadata, updated}): the
\* fields sent are replaced, the id and the created timestamp are the store's
updateRecord(d, task) ==
  [d EXCEPT !.url = task.url.text, !.content = task.content, !.updated = TRUE]

\* update of storeDocument has settled
UpdateDone(t, ok) ==
  LET task == tasks[t]
      old == {d \in docs : d.id = task.existing /\ d.coll = task.call.coll}
  IN  /\ task.pc = "update"
      /\ ok => Reachable(task.call.pb) /\ task.call.auth /\ old # {}
      /\ IF ok
         THEN /\ docs' = (docs \ old) \cup {updateRecord(d, task) : d \in old}
              /\ Resume(t, [g |-> debugLog(G),
                            task |-> OkResult(task, TRUE, task.existing, task.content)])
         ELSE /\ docs' = docs
              /\ Resume(t, [g |-> debugLog(G), task |-> ErrorResult(task, "Failed to store document")])
      /\ UNCHANGED << started, transports, resp, touched, override, raced, objs, sse, authenticate,
                      collections, server, html, docData, console >>

\* delete of deleteDocument has settled; the store deletes the record of the
\* collection that has the id
DeleteDone(t, ok) ==
  LET task == tasks[t]
      old == {d \in docs : d.id = IdOf(task.url) /\ d.coll = task.call.coll}
  IN  /\ task.pc = "delete"
      /\ ok => Reachable(task.call.pb) /\ task.call.auth /\ old # {}
      /\ IF ok
         THEN /\ docs' = docs \ old
              /\ Resume(t, [g |-> debugLog(G), task |-> OkResult(task, FALSE, IdOf(task.url), "")])
         ELSE /\ docs' = docs
              /\ Resume(t, [g |-> debugLog(G), task |-> ErrorResult(task, "Failed to delete document")])
      /\ UNCHANGED << started, transports, resp, touched, override, raced, objs, sse, authenticate,
                      collections, server, html, docData, console >>

\* create of storeDocument has settled
CreateDone(t, ok) ==
  LET task == tasks[t]
      id == NextId(docs)
  IN  /\ task.pc = "create"
      /\ ok => Reachable(task.call.pb) /\ task.call.auth /\ id <= MaxDocs
      /\ IF ok
         THEN /\ docs' = docs \cup {Doc(id, task.call.coll, task.url.text, task.content, FALSE)}
              /\ Resume(t, [g |-> debugLog(G), task |-> OkResult(task, FALSE, id, task.content)])
         ELSE /\ docs' = docs
              /\ Resume(t, [g |-> debugLog(G), task |-> ErrorResult(task, "Failed to store document")])
      /\ UNCHANGED << started, transports, resp, touched, override, raced, objs, sse, authenticate,
                      collections, server, html, docData, console >>

\* getOne of ensureCollectionExists has settled: the store finds the
\* collection, answers 404 because it has none of that name, or fails
GetOneDone(t, outcome) ==
  LET task == tasks[t]
  IN  /\ task.pc = "ec_getOne"
      /\ outcome \in {"found", "404"} => Reachable(task.call.pb) /\ task.call.auth
      /\ outcome = "found" => task.call.coll \in collections
      /\ outcome = "404" => task.call.coll \notin collections
      /\ Resume(t, afterGetOne(G, task, outcome))
      /\ UNCHANGED << started, transports, docs, resp, touched, override, raced, objs, sse,
                      authenticate, collections, server, html, docData, console >>

\* collections.create of ensureCollectionExists has settled; the store keeps
\* collection names unique
CollectionCreateDone(t, ok) ==
  LET task == tasks[t]
  IN  /\ task.pc = "ec_create"
      /\ ok => Reachable(task.call.pb) /\ task.call.auth /\ task.call.coll \notin collections
      /\ IF ok
         THEN /\ collections' = collections \cup {task.call.coll}
              /\ Resume(t, [g |-> debugLog(G), task |-> EnsureResult(task, task.call.coll, TRUE)])
         ELSE /\ collections' = collections
              /\ Resume(t, [g |-> debugLog(G),
                            task |-> ErrorResult(task, "Failed to ensure collection exists")])
      /\ UNCHANGED << started, transports, docs, resp, touched, override, raced, objs, sse,
                      authenticate, server, html, docData, console >>

\* a store call of connection_status has settled; its failure is reported in
\* the text of the result
StatusCallDone(t, ok) ==
  LET task == tasks[t]
  IN  /\ task.pc \in {"cs_collections", "cs_health", "cs_docs"}
      /\ ok => Reachable(task.call.pb) /\ task.call.auth
      /\ Resume(t, [g |-> G,
                    task |-> IF task.pc = "cs_collections" /\ ok
                             THEN [task EXCEPT !.pc = "cs_health", !.call = DataCall(G)]
                             ELSE IF task.pc = "cs_docs"
                             THEN OkResult(task, FALSE, 0, "")
                             ELSE [task EXCEPT !.pc = "cs_docs", !.call = DataCall(G)]])
      /\ UNCHANGED << started, transports, docs, resp, touched, override, raced, objs, sse, authenticate,
                      collections, server, html, docData, console >>

\* One step of the program, for the queries Q and session ids S of the callers,
\* their tools TL and URLs U, and the invocations T
Next ==
  \/ Main
  \/ \E q \in Queries, sid \in SessionIds \cup {""}, m \in Methods, tool \in Tools,
        url \in Urls, t \in Tasks : McpRequest(q, sid, m, tool, url, t)
  \/ \E m \in Methods, tool \in Tools, url \in Urls, t \in Tasks : StdioRequest(m, tool, url, t)
  \/ \E t \in Tasks, ok \in BOOLEAN : RefreshDone(t, ok)
  \/ \E t \in Tasks, ok \in BOOLEAN : AuthDone(t, ok)
  \/ \E t \in Tasks, ok \in BOOLEAN, c \in Contents : FetchDone(t, ok, c)
  \/ \E t \in Tasks, ok \in BOOLEAN, c \in Contents : MasterFetchDone(t, ok, c)
  \/ \E t \in Tasks, ok \in BOOLEAN : ListDone(t, ok)
  \/ \E t \in Tasks, ok \in BOOLEAN : UpdateDone(t, ok)
  \/ \E t \in Tasks, ok \in BOOLEAN : CreateDone(t, ok)
  \/ \E t \in Tasks, ok \in BOOLEAN : StatusCallDone(t, ok)
  \/ \E t \in Tasks : McpRequest(EmptyQuery, "", "tools/call", "ensure_collection", NoUrl, t)
  \/ \E t \in Tasks, outcome \in GetOneOutcomes : GetOneDone(t, outcome)
  \/ \E t \in Tasks, ok \in BOOLEAN : CollectionCreateDone(t, ok)
  \/ \E t \in Tasks, n \in 1..MaxDocs :
        McpRequest(EmptyQuery, "", "tools/call", "delete_document", DocArg(n), t)
  \/ \E t \in Tasks, ok \in BOOLEAN : DeleteDone(t, ok)
  \/ Health

Spec == Init /\ [][Next]_vars

\* The configuration lifecycle and the request handlers, with one tool
\* invocation in flight at a time
OneTask == {"t1"}
NextConfig ==
  \/ Main
  \/ \E q \in Queries, sid \in {"", "s1"}, m \in Methods, tool \in Tools,
        url \in {UrlLearn}, t \in OneTask : McpRequest(q, sid, m, tool, url, t)
  \/ \E m \in Methods, tool \in Tools, url \in {UrlLearn}, t \in OneTask :
        StdioRequest(m, tool, url, t)
  \/ \E t \in OneTask, ok \in BOOLEAN : RefreshDone(t, ok)
  \/ \E t \in OneTask, ok \in BOOLEAN : AuthDone(t, ok)
  \/ \E t \in OneTask, ok \in BOOLEAN, c \in {"c1"} : FetchDone(t, ok, c)
  \/ \E t \in OneTask, ok \in BOOLEAN : ListDone(t, ok)
  \/ \E t \in OneTask, ok \in BOOLEAN : CreateDone(t, ok)
  \/ \E t \in OneTask, ok \in BOOLEAN : StatusCallDone(t, ok)

SpecConfig == Init /\ [][NextConfig]_vars

\* The ingestion pipeline: extract_document invocations that interleave with
\* each other and with requests that switch the collection
InitIngest ==
  /\ Init
  /\ env = [EnvConfigured EXCEPT !.TRANSPORT_MODE = "http"]
  /\ dotenvFile = EnvUnset

NextIngest ==
  \/ Main
  \/ \E q \in {EmptyQuery, QueryColl}, sid \in {"", "s1"}, m \in {"initialize", "tools/call"},
        url \in Urls, t \in Tasks : McpRequest(q, sid, m, "extract_document", url, t)
  \/ \E t \in Tasks, ok \in BOOLEAN : RefreshDone(t, ok)
  \/ \E t \in Tasks, ok \in BOOLEAN : AuthDone(t, ok)
  \/ \E t \in Tasks, ok \in BOOLEAN, c \in Contents : FetchDone(t, ok, c)
  \/ \E t \in Tasks, ok \in BOOLEAN : ListDone(t, ok)
  \/ \E t \in Tasks, ok \in BOOLEAN : UpdateDone(t, ok)
  \/ \E t \in Tasks, ok \in BOOLEAN : CreateDone(t, ok)

SpecIngest == InitIngest /\ [][NextIngest]_vars

\* Sequential ingests: a request is accepted only when no invocation is in
\* flight, t1 is the first ingest and t2 the second, and no request carries
\* an override
NextSeq ==
  \/ Main
  \/ \E sid \in {"", "s1"}, m \in {"initialize", "tools/call"}, url \in Urls, t \in Tasks :
        /\ \A o \in Tasks : tasks[o].pc \in {"idle", "done"}
        /\ t = "t1" \/ tasks["t1"].pc = "done"
        /\ McpRequest(EmptyQuery, sid, m, "extract_document", url, t)
  \/ \E t \in Tasks, ok \in BOOLEAN : RefreshDone(t, ok)
  \/ \E t \in Tasks, ok \in BOOLEAN : AuthDone(t, ok)
  \/ \E t \in Tasks, ok \in BOOLEAN, c \in Contents : FetchDone(t, ok, c)
  \/ \E t \in Tasks, ok \in BOOLEAN : ListDone(t, ok)
  \/ \E t \in Tasks, ok \in BOOLEAN : UpdateDone(t, ok)
  \/ \E t \in Tasks, ok \in BOOLEAN : CreateDone(t, ok)

SpecSeq == InitIngest /\ [][NextSeq]_vars

\* The session registries: requests on /mcp, /sse and /messages, the sessions'
\* close and error events, and one ingest that the requests start
SessionMethods == Methods \cup {"DELETE"}

NextSession ==
  \/ Main
  \/ \E q \in {EmptyQuery}, sid \in {"", "s1"}, m \in SessionMethods,
        est \in {"ok", "construct", "connect", "handle"}, t \in OneTask :
        McpHandler(q, sid, m, "extract_document", UrlLearn, t, est)
  \/ \E q \in {EmptyQuery} : SseRequest(q)
  \/ \E sid \in SseIds \cup {""}, m \in {"tools/call"}, t \in OneTask :
        Messages(sid, m, "extract_document", UrlLearn, t)
  \/ \E o \in 1..MaxTransports : SseClose(o)
  \/ \E o \in 1..MaxTransports : SseError(o)
  \/ \E t \in OneTask, ok \in BOOLEAN : RefreshDone(t, ok)
  \/ \E t \in OneTask, ok \in BOOLEAN : AuthDone(t, ok)
  \/ \E t \in OneTask, ok \in BOOLEAN, c \in {"c1"} : FetchDone(t, ok, c)
  \/ \E t \in OneTask, ok \in BOOLEAN : ListDone(t, ok)
  \/ \E t \in OneTask, ok \in BOOLEAN : CreateDone(t, ok)

SpecSession == InitIngest /\ [][NextSession]_vars

\* Requests with and without a registered session, with and without an
\* override, on /mcp and on /messages
NextReject ==
  \/ Main
  \/ \E q \in {EmptyQuery, QueryColl}, sid \in {"", "s1"}, m \in Methods, t \in OneTask :
        McpRequest(q, sid, m, "extract_document", UrlLearn, t)
  \/ \E q \in {EmptyQuery} : SseRequest(q)
  \/ \E sid \in SseIds \cup {""}, m \in {"tools/list", "tools/call"}, t \in OneTask :
        Messages(sid, m, "extract_document", UrlLearn, t)
  \/ Health
  \/ \E t \in OneTask, ok \in BOOLEAN : RefreshDone(t, ok)
  \/ \E t \in OneTask, ok \in BOOLEAN : AuthDone(t, ok)
  \/ \E t \in OneTask, ok \in BOOLEAN, c \in {"c1"} : FetchDone(t, ok, c)
  \/ \E t \in OneTask, ok \in BOOLEAN : ListDone(t, ok)
  \/ \E t \in OneTask, ok \in BOOLEAN : CreateDone(t, ok)

SpecReject == InitIngest /\ [][NextReject]_vars

\* Credentials supplied after a failed call: the process starts without
\* credentials, its callers take turns, and they supply the credentials by an
\* override or by the authenticate tool
InitRetry ==
  /\ Init
  /\ env = [EnvUnset EXCEPT !.TRANSPORT_MODE = "http"]
  /\ dotenvFile = EnvUnset

Quiescent ==
  /\ \A o \in Tasks : tasks[o].pc \in {"idle", "done"}
  /\ authenticate.pc \in {"idle", "done"}

NextRetry ==
  \/ Main
  \/ \E q \in {EmptyQuery, QueryCreds}, sid \in {"", "s1"}, m \in Methods, tool \in Tools,
        t \in Tasks :
        /\ Quiescent
        /\ t = "t1" \/ tasks["t1"].pc = "done"
        /\ McpRequest(q, sid, m, tool, UrlLearn, t)
  \/ \E sid \in {"s1"}, password \in {AdminPassword, WrongPassword} :
        /\ Quiescent
        /\ AuthenticateCall(sid, RemoteUrl, AdminEmail, password)
  \/ \E ok \in BOOLEAN : AuthenticateDone(ok)
  \/ \E t \in Tasks, ok \in BOOLEAN : RefreshDone(t, ok)
  \/ \E t \in Tasks, ok \in BOOLEAN : AuthDone(t, ok)
  \/ \E t \in Tasks, ok \in BOOLEAN, c \in {"c1"} : FetchDone(t, ok, c)
  \/ \E t \in Tasks, ok \in BOOLEAN : ListDone(t, ok)
  \/ \E t \in Tasks, ok \in BOOLEAN : UpdateDone(t, ok)
  \/ \E t \in Tasks, ok \in BOOLEAN : CreateDone(t, ok)
  \/ \E t \in Tasks, ok \in BOOLEAN : StatusCallDone(t, ok)

SpecRetry == InitRetry /\ [][NextRetry]_vars

\* The extractors: one extract_document at a time, over every shape of URL
\* and every body a response can carry, with and without credentials
Bodies == {"", "c1"}
ExtractUrls == Urls \cup GitHubUrls

InitExtract ==
  /\ Init
  /\ env \in {[EnvConfigured EXCEPT !.TRANSPORT_MODE = "http"],
              [EnvUnset EXCEPT !.TRANSPORT_MODE = "http"]}
  /\ dotenvFile = EnvUnset

NextExtract ==
  \/ Main
  \/ \E sid \in {"", "s1"}, m \in {"initialize", "tools/call"}, url \in ExtractUrls,
        t \in OneTask : McpRequest(EmptyQuery, sid, m, "extract_document", url, t)
  \/ \E t \in OneTask, ok \in BOOLEAN : RefreshDone(t, ok)
  \/ \E t \in OneTask, ok \in BOOLEAN : AuthDone(t, ok)
  \/ \E t \in OneTask, ok \in BOOLEAN, c \in Bodies : FetchDone(t, ok, c)
  \/ \E t \in OneTask, ok \in BOOLEAN, c \in Contents : MasterFetchDone(t, ok, c)
  \/ \E t \in OneTask, ok \in BOOLEAN : ListDone(t, ok)
  \/ \E t \in OneTask, ok \in BOOLEAN : CreateDone(t, ok)

SpecExtract == InitExtract /\ [][NextExtract]_vars

\* The documentation-site extractor over every page of Pages
InitLearn ==
  /\ InitCore
  /\ docs = {}
  /\ env = EnvUnset
  /\ dotenvFile = EnvUnset
  /\ html \in Pages
  /\ collections = StoreCollections

NextLearn == ExtractContent

SpecLearn == InitLearn /\ [][NextLearn]_vars

\* ------------------------------------------------------------------ properties
\* The settings a request can override, by the key that names them, and the
\* value the Configuration and the credentials' source hold for each
OverrideKeys ==
  {"pocketbaseUrl", "pocketbaseEmail", "pocketbasePassword", "defaultCollection", "debugMode"}

Setting(key) ==
  CASE key = "pocketbaseUrl" -> IF pb = 0 THEN "" ELSE clients[pb].baseUrl
    [] key = "pocketbaseEmail" -> env.POCKETBASE_EMAIL
    [] key = "pocketbasePassword" -> env.POCKETBASE_PASSWORD
    [] key = "defaultCollection" -> DOCUMENTS_COLLECTION
    [] key = "debugMode" -> DEBUG

\* every setting that query q names, by a plain key or by the last segment of
\* a dotted one, has q's value
Reflects(q) ==
  \A k \in DOMAIN q :
    (k[Len(k)] \in OverrideKeys /\ q[k] # "") => Setting(k[Len(k)]) = q[k]

\* no two records of a collection have the same metadata.url
OnePerUrl ==
  \A d1 \in docs, d2 \in docs : (d1.coll = d2.coll /\ d1.url = d2.url) => d1.id = d2.id

C3_ExactlyOneWriteWhenExtracted ==
  \A t \in Tasks :
    tasks[t].pc = "done" =>
      Len(tasks[t].writes) = IF tasks[t].extracted THEN 1 ELSE 0

\* C3, amended: an ingest performs at most one store write, none before
\* storeDocument's identity lookup has returned and none when the extraction
\* failed or the URL is unsupported; it has performed exactly one when its
\* write is in flight and when it returns success. An ingest whose extraction
\* succeeded and whose authentication or lookup in storeDocument then failed
\* returns an error having performed none.
C3_AtMostOneWrite ==
  \A t \in Tasks :
    LET task == tasks[t]
    IN  /\ Len(task.writes) <= 1
        /\ ~task.extracted => Len(task.writes) = 0
        /\ task.pc \in {"idle", "refresh", "auth", "fetch", "list"} => Len(task.writes) = 0
        /\ task.pc \in {"update", "create"} => Len(task.writes) = 1
        /\ (task.pc = "done" /\ task.res.status = "ok") => Len(task.writes) = 1
        /\ (task.pc = "done" /\ task.existing = -1) => Len(task.writes) = 0

C3_Witness ==
  \E a \in Tasks, b \in Tasks :
    /\ tasks[a].pc = "done" /\ tasks[a].res.status = "ok" /\ Len(tasks[a].writes) = 1
    /\ tasks[b].pc = "done" /\ tasks[b].extracted /\ Len(tasks[b].writes) = 0

\* C4: the second of two initializeConfig calls with no override or reset in
\* between leaves the Configuration as the first left it: the same store
\* client, none constructed, and the same collection name, debug flag, port
\* and initialized flag.
C4_IdempotentInit ==
  initCalls = 2 => (Configuration(G) = snap /\ pb = Len(clients))

C4_Witness == initCalls = 2 /\ configInitialized /\ started = "http"

\* C5: a request that overrides the collection name with x leaves, whatever
\* the Configuration was, an initialized Configuration whose collection name
\* is x and whose store client is one constructed by that request.
C5_OverrideForcesReload ==
  [][ (resp' # resp /\ <<"defaultCollection">> \in DOMAIN resp'.query) =>
        /\ DOCUMENTS_COLLECTION' = resp'.query[<<"defaultCollection">>]
        /\ configInitialized'
        /\ Len(clients') = Len(clients) + 1
        /\ pb' = Len(clients')
        /\ clients'[pb'] = NewPocketBase(Or(env'.POCKETBASE_URL, DefaultUrl)) ]_vars

C5_Witness ==
  /\ resp.query = QueryColl
  /\ DOCUMENTS_COLLECTION = "x"
  /\ pb >= 2

\* C6, as stated: the store endpoint, the credentials, the collection name
\* and the debug flag named by the last request-level override, by a plain or
\* a dotted key, are the ones in effect, in every state until another
\* override replaces it.
C6_OverridesReflected == Reflects(override)

\* C7, as stated: a tool call that starts, in the request that carries an
\* override or in any later request, observes the values of the last override.
C7_CallsObserveOverrides ==
  [][ (\E t \in Tasks : tasks[t].pc = "idle" /\ tasks'[t].pc # "idle") =>
        Reflects(override)' ]_vars

C9_NoInitAtStartup ==
  (started # "no" /\ ~touched) => (~configInitialized /\ pb = 0 /\ clients = << >>)

\* C10: a request that creates a session or lists the tools starts no handler
\* and sends no store call, so no invocation, record or client token changes;
\* initializing a new session and listing the tools of an initialized one
\* succeed whatever the credentials and the endpoint are.
C10_DiscoveryWithoutStore ==
  [][ (resp' # resp /\ resp'.method \in {"initialize", "tools/list"}) =>
        /\ tasks' = tasks
        /\ docs' = docs
        /\ \A c \in 1..Len(clients) : clients'[c] = clients[c]
        /\ (resp'.method = "initialize" /\ ~resp'.wasInit) =>
             (resp'.code = 200 /\ resp'.result = "initialized")
        /\ (resp'.method = "tools/list" /\ resp'.wasInit) =>
             (resp'.code = 200 /\ resp'.result = "tools") ]_vars

C10_Witness ==
  /\ resp.method = "tools/list"
  /\ resp.code = 200
  /\ started = "http"
  /\ env.POCKETBASE_EMAIL = "" /\ env.POCKETBASE_PASSWORD = ""
  /\ pb # 0
  /\ clients[pb].baseUrl \notin ReachableUrls


\* the transport objects of kind k that are open and were registered under id
LiveObjects(k, id) ==
  {o \in 1..Len(objs) : objs[o].kind = k /\ objs[o].key = id /\ objs[o].open}

\* C11: a /mcp request that carries the id of a registered session is handled
\* by the transport object registered under that id, whose session-local
\* state it observes: no transport object is constructed for it, and the id
\* stays bound to the same object unless the request closes the session.
C11_RoutedToRegisteredSession ==
  [][ (resp' # resp /\ resp'.method \in SessionMethods /\ resp'.given # ""
         /\ resp'.given \in DOMAIN transports) =>
        /\ Len(objs') = Len(objs)
        /\ resp'.sid = resp'.given
        /\ resp'.wasInit = transports[resp'.given].initialized
        /\ resp'.given \in DOMAIN transports' =>
             transports'[resp'.given].obj = transports[resp'.given].obj ]_vars

C11_Witness ==
  /\ resp.method = "tools/list"
  /\ resp.reused
  /\ resp.code = 200
  /\ Len(objs) = 1

\* C12, as stated: a /mcp request that carries no session id or an
\* unregistered one gets a session registered under an id the server minted,
\* different from the id the caller supplied.
C12_NewSessionMintsId ==
  (resp.method \in SessionMethods /\ ~resp.reused /\ resp.sid \in DOMAIN transports) =>
    resp.sid # resp.given

\* C13: at any time at most one open streamable session object exists for a
\* session id, and it is the one the registry holds for that id.
C13_OneLiveSessionPerId ==
  \A id \in SessionIds :
    /\ Cardinality(LiveObjects("streamable", id)) <= 1
    /\ \A o \in LiveObjects("streamable", id) :
         id \in DOMAIN transports /\ transports[id].obj = o

C13_Witness ==
  \E o1 \in 1..Len(objs), o2 \in 1..Len(objs) :
    /\ o1 # o2
    /\ objs[o1].kind = "streamable" /\ objs[o2].kind = "streamable"
    /\ objs[o1].key = objs[o2].key
    /\ ~objs[o1].open /\ objs[o2].open
    /\ resp.reused /\ resp.given = objs[o2].key

\* no registry holds a transport object that has reported closure or error
NoClosedRegistered ==
  \A o \in 1..Len(objs) :
    ~objs[o].open =>
      /\ \A id \in DOMAIN transports : transports[id].obj # o
      /\ \A k \in DOMAIN sse : sse[k] # o

C15_AdvertisedIdDelivered ==
  (resp.method = "messages"
     /\ \E o \in 1..Len(objs) :
          objs[o].kind = "sse" /\ objs[o].open /\ objs[o].advertised = resp.given) =>
    resp.result = "Accepted"

\* the last request carried an unregistered session id, or none on /messages,
\* and did not start a session
Rejected ==
  \/ resp.method \in {"tools/list", "tools/call"} /\ resp.given # "" /\ ~resp.reused
  \/ resp.method = "messages" /\ ~resp.reused

\* C16, as stated: a request with an unregistered session id (or none on
\* /messages) that does not start a session is answered with a structured
\* protocol error, and no tool handler, configuration change or store call
\* runs for it.
C16_RejectedBeforeDomainLogic ==
  [][ (resp' # resp /\ Rejected') =>
        /\ resp'.code >= 400 /\ resp'.rpc < 0
        /\ tasks' = tasks /\ docs' = docs /\ clients' = clients
        /\ env' = env
        /\ Configuration(G)' = Configuration(G) ]_vars

\* C16, amended: such a request is answered with a structured protocol error
\* and starts no tool handler and no store call; when it carries no override
\* the configuration is unchanged too, and when it carries one on /mcp the
\* override is applied and the Configuration rebuilt before the rejection.
C16_RejectedWithoutHandler ==
  [][ (resp' # resp /\ Rejected') =>
        /\ resp'.code >= 400 /\ resp'.rpc < 0
        /\ tasks' = tasks /\ docs' = docs
        /\ \A c \in 1..Len(clients) : clients'[c] = clients[c]
        /\ resp'.query = EmptyQuery =>
             (clients' = clients /\ env' = env /\ Configuration(G)' = Configuration(G))
        /\ <<"defaultCollection">> \in DOMAIN resp'.query =>
             /\ DOCUMENTS_COLLECTION' = resp'.query[<<"defaultCollection">>]
             /\ Len(clients') = Len(clients) + 1
             /\ pb' = Len(clients') ]_vars

C16_Witness ==
  /\ Rejected
  /\ resp.method = "tools/call"
  /\ resp.query = QueryColl
  /\ DOCUMENTS_COLLECTION = "x"
  /\ \E k \in DOMAIN sse : TRUE

\* C19: a step in which the session of an ingest closes while the ingest is
\* suspended at its identity lookup or at its write changes neither the
\* ingest nor the store: the write stays in flight and settles later.
C19_CloseKeepsWrite ==
  [][ \A t \in Tasks :
        (/\ tasks[t].pc \in {"list", "update", "create"}
         /\ \/ tasks[t].sid \in DOMAIN transports \ DOMAIN transports'
            \/ tasks[t].sid \in DOMAIN sse \ DOMAIN sse') =>
          (tasks'[t] = tasks[t] /\ docs' = docs) ]_vars

C19_Witness ==
  \E t \in Tasks, d \in docs :
    /\ tasks[t].res.status = "ok"
    /\ d.id = tasks[t].res.id
    /\ tasks[t].sid \notin DOMAIN transports \cup DOMAIN sse
    /\ \E o \in 1..Len(objs) : objs[o].key = tasks[t].sid /\ ~objs[o].open

\* the last /mcp request failed while its session was being established
EstablishmentFailed ==
  /\ resp.method \in SessionMethods
  /\ ~resp.reused
  /\ resp.sid \notin DOMAIN transports \/ ~transports[resp.sid].connected

Returned(t) == tasks[t].pc # "done" /\ tasks'[t].pc = "done"

\* C17, as stated: a failure of the extraction or of a store call inside any
\* tool becomes a result with the error flag set.
C17_FailuresFlagged ==
  \A t \in Tasks :
    (tasks[t].pc = "done" /\ tasks[t].res.error # "") => tasks[t].res.status = "error"

\* C17, amended: every invocation that ends returns a result; a failure inside
\* extract_document or authenticate is returned with the error flag set, and
\* only connection_status reports a failed store call in a result without
\* it; the step in which an invocation returns, failed or not, leaves its
\* session registered and initialized.
C17_EveryCallReturns ==
  /\ [](\A t \in Tasks :
          tasks[t].pc = "done" =>
            /\ tasks[t].res.status \in {"ok", "error"}
            /\ (tasks[t].res.error # "" /\ tasks[t].tool # "connection_status") =>
                 tasks[t].res.status = "error"
            /\ (tasks[t].res.error = "" /\ tasks[t].tool = "extract_document") =>
                 (tasks[t].res.status = "ok" /\ \E d \in docs : d.id = tasks[t].res.id))
  /\ [](authenticate.pc = "done" => authenticate.res \in {"ok", "error"})
  /\ [][ \A t \in Tasks :
           Returned(t) =>
             /\ transports' = transports
             /\ tasks'[t].sid \in DOMAIN transports'
             /\ transports'[tasks'[t].sid].initialized ]_vars

C17_Witness ==
  /\ tasks["t1"].pc = "done"
  /\ tasks["t1"].tool = "extract_document"
  /\ tasks["t1"].res.status = "error"
  /\ tasks["t1"].res.error = "Failed to store document"
  /\ tasks["t2"].pc = "done"
  /\ tasks["t2"].sid = tasks["t1"].sid
  /\ tasks["t2"].tool = "connection_status"
  /\ tasks["t2"].res.status = "ok"
  /\ tasks["t2"].res.error # ""

\* the credentials have been supplied, by an override or by the authenticate
\* tool
Supplied == override = QueryCreds \/ authenticate.res = "ok"

\* C18: once the credentials have been supplied, a call does not fail for
\* missing credentials or configuration: it starts by authenticating, and
\* every store call it sends carries the supplied credentials, or the token
\* obtained with them, to the supplied endpoint, so that it succeeds whenever
\* the store accepts them.
C18_RetryReachesStore ==
  /\ [](Supplied =>
          \A t \in Tasks :
            /\ tasks[t].pc = "auth" =>
                 /\ Reachable(tasks[t].call.pb)
                 /\ CredentialsOk(tasks[t].call.email, tasks[t].call.password)
            /\ tasks[t].pc \in {"refresh", "list", "update", "create", "cs_collections",
                                "cs_health", "cs_docs"} =>
                 (Reachable(tasks[t].call.pb) /\ tasks[t].call.auth))
  /\ [][ \A t \in Tasks :
           (Supplied' /\ tasks[t].pc = "idle" /\ tasks'[t].pc # "idle") =>
             tasks'[t].pc \in {"auth", "refresh"} ]_vars

C18_Witness ==
  /\ tasks["t1"].res.error = "credentials not configured"
  /\ tasks["t1"].tool = "extract_document"
  /\ authenticate.res = "ok"
  /\ override = EmptyQuery
  /\ tasks["t2"].tool = "extract_document"
  /\ tasks["t2"].res.status = "ok"
  /\ tasks["t2"].sid = tasks["t1"].sid

\* the URL of an invocation matches neither the documentation site nor the
\* code-hosting site
Unsupported(url) ==
  /\ ~includes(url, "learn.microsoft.com")
  /\ ~includes(url, "github.com")
  /\ ~includes(url, "raw.githubusercontent.com")

\* C21, as stated: an ingest of a URL of neither shape issues no network call
\* of any kind, store authentication included, and fails with the
\* unsupported-source error in every configuration state.
C21_UnsupportedNoNetwork ==
  \A t \in Tasks :
    (tasks[t].tool = "extract_document" /\ Unsupported(tasks[t].url)) =>
      /\ tasks[t].pc \in {"idle", "done"}
      /\ tasks[t].pc = "done" => tasks[t].res.error = "Unsupported URL"

\* the alternate-branch fetch of an invocation succeeded after its
\* default-branch fetch failed
FellBack(t) ==
  /\ Len(tasks[t].fetches) = 2
  /\ tasks[t].fetches[1].status = "failed"
  /\ tasks[t].fetches[2].status = "ok"

\* C22, as stated: a code-hosting extraction whose default-branch fetch fails
\* and whose alternate-branch fetch succeeds is a successful extraction whose
\* rawUrl names the alternate branch.
C22_FallbackSucceeds ==
  \A t \in Tasks :
    FellBack(t) =>
      /\ tasks[t].extracted
      /\ tasks[t].rawUrl = tasks[t].fetches[2].url
      /\ includesSegs(tasks[t].rawUrl, "/master/")

\* C23: an invocation sends at most one fetch, or two when it extracts from
\* the code-hosting site, the second only after the first failed and to the
\* same raw URL with main replaced by master; it sends at most one identity
\* lookup and at most one write.
C23_NoRetries ==
  \A t \in Tasks :
    LET f == tasks[t].fetches
    IN  /\ Len(f) <= IF tasks[t].rawUrl # << >> THEN 2 ELSE 1
        /\ Len(f) = 2 =>
             /\ f[1].status = "failed"
             /\ includesSegs(f[1].url, "/main/")
             /\ f[2].url = replaceBetween(f[1].url, "/main/", "/master/")
             /\ f[2].url # f[1].url
        /\ tasks[t].lookups <= 1
        /\ Len(tasks[t].writes) <= 1

C23_Witness ==
  \E t \in Tasks :
    /\ FellBack(t)
    /\ tasks[t].res.status = "ok"
    /\ tasks[t].lookups = 1
    /\ Len(tasks[t].writes) = 1

\* C24, as stated: every content fetch, the alternate-branch one included,
\* carries a bounded timeout.
C24_FetchesBounded ==
  \A t \in Tasks :
    \A i \in 1..Len(tasks[t].fetches) : tasks[t].fetches[i].timeout > NoTimeout

\* C25, as stated: an ingest of a code-hosting URL that points at a directory
\* issues no content fetch, whatever else the URL contains.
C25_DirectoryNoFetch ==
  \A t \in Tasks :
    tasks[t].url \in DirectoryUrls =>
      /\ tasks[t].fetches = << >>
      /\ tasks[t].pc = "done" =>
           tasks[t].res.error \in {"Directory URLs not supported", "authentication failed",
                                   "credentials not configured"}

\* the locators of the page whose text is longer than the walk's threshold,
\* and those that match anything
Qualifying == {i \in DOMAIN html : html[i] # NoMatch /\ html[i].length > MinWalkLength}
Matched == {i \in DOMAIN html : html[i] # NoMatch}
First(S) == CHOOSE i \in S : \A j \in S : i <= j
Last(S) == CHOOSE i \in S : \A j \in S : j <= i

\* C26, as stated: the extraction returns the text of the first locator whose
\* text exceeds the minimum length, and fails with insufficient content when
\* no locator's text exceeds it.
C26_FirstQualifyingOrFail ==
  docData # NoDocData =>
    IF Qualifying # {}
    THEN docData.status = "ok" /\ docData.content.s = html[First(Qualifying)].s
    ELSE docData.status = "error"

\* C26, amended: the walk stops at the first locator whose trimmed text is
\* longer than 100 characters, and otherwise keeps the text of the last
\* locator that matched; the extraction returns that text with its whitespace
\* collapsed, and fails with insufficient content when the collapsed text is
\* empty or shorter than 50 characters.
C26_WalkThenMinimum ==
  docData # NoDocData =>
    LET kept == IF Qualifying # {} THEN html[First(Qualifying)]
                ELSE IF Matched # {} THEN html[Last(Matched)]
                ELSE NoText
    IN  IF kept.clean >= MinContentLength
        THEN /\ docData.status = "ok"
             /\ docData.content.s = kept.s
             /\ docData.content.length = kept.clean
        ELSE docData.status = "error" /\ docData.content = NoText

C26_Witness ==
  /\ Qualifying = {}
  /\ Cardinality(Matched) >= 2
  /\ docData.status = "ok"
  /\ docData.content.s = "medium"
  /\ html[First(Matched)].s = "short"

\* C27: a /health request is answered 200 with the value the
\* configuration-initialized flag has at that time and the sizes of the two
\* session registries; the step sends no store call and changes neither the
\* Configuration, the flag, the clients, the registries, the invocations nor
\* the store.
C27_HealthIsPure ==
  [][ (resp' # resp /\ resp'.method = "health") =>
        /\ resp'.code = 200
        /\ resp'.health.initialized = configInitialized
        /\ resp'.health.streamableHttp = Cardinality(DOMAIN transports)
        /\ resp'.health.sse = Cardinality(DOMAIN sse)
        /\ UNCHANGED << cfgVars, transports, sse, objs, tasks, docs, collections >> ]_vars

C27_Witness ==
  /\ resp.method = "health"
  /\ resp.health.initialized
  /\ resp.health.streamableHttp = 1
  /\ resp.health.sse = 1
  /\ \E t \in Tasks : tasks[t].pc = "auth"
  /\ override = QueryColl

\* ensure_collection called by one caller after another, against a store that
\* has the configured collection or lacks it
InitEnsure ==
  /\ InitCore
  /\ docs = {}
  /\ html = NoHtml
  /\ collections \in SUBSET StoreCollections
  /\ env = [EnvConfigured EXCEPT !.TRANSPORT_MODE = "http"]
  /\ dotenvFile = EnvUnset

NextEnsure ==
  \/ Main
  \/ \E sid \in {"", "s1"}, m \in {"initialize", "tools/call"}, t \in Tasks :
        /\ Quiescent
        /\ t = "t1" \/ tasks["t1"].pc = "done"
        /\ McpRequest(EmptyQuery, sid, m, "ensure_collection", NoUrl, t)
  \/ \E t \in Tasks, ok \in BOOLEAN : RefreshDone(t, ok)
  \/ \E t \in Tasks, ok \in BOOLEAN : AuthDone(t, ok)
  \/ \E t \in Tasks, outcome \in GetOneOutcomes : GetOneDone(t, outcome)
  \/ \E t \in Tasks, ok \in BOOLEAN : CollectionCreateDone(t, ok)

SpecEnsure == InitEnsure /\ [][NextEnsure]_vars

\* an ensure_collection invocation returns in this step
EnsureReturns(t) == Returned(t) /\ tasks[t].tool = "ensure_collection"

\* C28: ensuring the collection is idempotent. A call that finds the
\* collection creates nothing and reports created = false; a call that finds
\* it absent creates exactly that one collection and reports created = true;
\* a call whose creation does not take effect returns an error and never
\* "already exists"; and of two sequential successful calls the second
\* reports created = false.
C28_EnsureIdempotent ==
  /\ [][ \A t \in Tasks : EnsureReturns(t) =>
            LET name == tasks[t].call.coll
            IN  IF tasks'[t].res.status = "ok"
                THEN /\ tasks'[t].res.content = name
                     /\ name \in collections'
                     /\ tasks'[t].res.created = (name \notin collections)
                     /\ collections' = collections \cup {name}
                ELSE /\ collections' = collections
                     /\ tasks'[t].res.status = "error"
                     /\ ~tasks'[t].res.created ]_vars
  /\ [][ collections' # collections => \E t \in Tasks : EnsureReturns(t) /\ tasks[t].pc = "ec_create" ]_vars
  /\ [] ( /\ tasks["t1"].res.status = "ok" /\ tasks["t2"].res.status = "ok"
          /\ tasks["t1"].tool = "ensure_collection" /\ tasks["t2"].tool = "ensure_collection"
          => ~tasks["t2"].res.created )

C28_Witness ==
  /\ tasks["t1"].res.status = "ok" /\ tasks["t1"].res.created
  /\ tasks["t2"].res.status = "ok" /\ ~tasks["t2"].res.created
  /\ tasks["t1"].res.content = DefaultCollection
  /\ tasks["t2"].res.content = DefaultCollection
  /\ DefaultCollection \in collections

\* Read-only mode: READ_ONLY_MODE is given in the process environment, in the
\* .env file or not at all, in both transport modes; callers invoke the write
\* tools and connection_status on the stdio server and on sessions of /mcp
ReadOnlyFlags == {"", "true"}
ReadOnlyTools == WriteTools \cup {"connection_status"}
ReadOnlyArgs == {UrlLearn, DocArg(1)}

InitReadOnly ==
  /\ InitCore
  /\ docs = {}
  /\ html = NoHtml
  /\ collections \in {StoreCollections, StoreCollections \ {DefaultCollection}}
  /\ env \in {[EnvConfigured EXCEPT !.TRANSPORT_MODE = m, !.READ_ONLY_MODE = r] :
                m \in {"", "http"}, r \in ReadOnlyFlags}
  /\ dotenvFile \in {[EnvUnset EXCEPT !.READ_ONLY_MODE = r] : r \in ReadOnlyFlags}

NextReadOnly ==
  \/ Main
  \/ \E sid \in {"", "s1"}, m \in {"initialize", "tools/call"}, tool \in ReadOnlyTools,
        url \in ReadOnlyArgs, t \in Tasks :
        /\ Quiescent
        /\ t = "t1" \/ tasks["t1"].pc = "done"
        /\ McpRequest(EmptyQuery, sid, m, tool, url, t)
  \/ \E tool \in ReadOnlyTools, url \in ReadOnlyArgs, t \in Tasks :
        /\ Quiescent
        /\ t = "t1" \/ tasks["t1"].pc = "done"
        /\ StdioRequest("tools/call", tool, url, t)
  \/ \E t \in Tasks, ok \in BOOLEAN : RefreshDone(t, ok)
  \/ \E t \in Tasks, ok \in BOOLEAN : AuthDone(t, ok)
  \/ \E t \in Tasks, ok \in BOOLEAN, c \in {"c1"} : FetchDone(t, ok, c)
  \/ \E t \in Tasks, ok \in BOOLEAN : ListDone(t, ok)
  \/ \E t \in Tasks, ok \in BOOLEAN : UpdateDone(t, ok)
  \/ \E t \in Tasks, ok \in BOOLEAN : CreateDone(t, ok)
  \/ \E t \in Tasks, ok \in BOOLEAN : DeleteDone(t, ok)
  \/ \E t \in Tasks, outcome \in GetOneOutcomes : GetOneDone(t, outcome)
  \/ \E t \in Tasks, ok \in BOOLEAN : CollectionCreateDone(t, ok)
  \/ \E t \in Tasks, ok \in BOOLEAN : StatusCallDone(t, ok)

SpecReadOnly == InitReadOnly /\ [][NextReadOnly]_vars

\* READ_ONLY_MODE is 'true' in process.env
ReadOnlyFlag == env.READ_ONLY_MODE = "true"

InitLog ==
  /\ InitCore
  /\ docs = {}
  /\ html = NoHtml
  /\ collections = StoreCollections
  /\ env \in {[e EXCEPT !.TRANSPORT_MODE = "http", !.DEBUG = d] :
                e \in {EnvUnset, EnvConfigured}, d \in {"", "true"}}
  /\ dotenvFile = EnvUnset

NextLog ==
  \/ Main
  \/ \E q \in {EmptyQuery, QueryCreds}, sid \in {"", "s1"}, m \in Methods, t \in Tasks :
        /\ Quiescent
        /\ t = "t1" \/ tasks["t1"].pc = "done"
        /\ McpRequest(q, sid, m, "connection_status", NoUrl, t)
  \/ \E sid \in {"s1"}, password \in {AdminPassword, WrongPassword} :
        /\ Quiescent
        /\ AuthenticateCall(sid, RemoteUrl, AdminEmail, password)
  \/ \E ok \in BOOLEAN : AuthenticateDone(ok)
  \/ \E t \in Tasks, ok \in BOOLEAN : RefreshDone(t, ok)
  \/ \E t \in Tasks, ok \in BOOLEAN : AuthDone(t, ok)
  \/ \E t \in Tasks, ok \in BOOLEAN : StatusCallDone(t, ok)

SpecLog == InitLog /\ [][NextLog]_vars

\* the password the process is configured with; "" when it has none
ConfiguredPassword == Or(env.POCKETBASE_PASSWORD, env.POCKETBASE_ADMIN_PASSWORD)

\* C30: the configured password never appears in a log line, with debug
\* logging on or off. The code logs the query and the body of every /mcp
\* request when debug logging is on, so a password supplied by an override
\* or to the authenticate tool is printed.
C30_PasswordNeverLogged ==
  ConfiguredPassword # "" => ConfiguredPassword \notin console

\* the handler positions at which a data call of the store is in flight
DataPcs ==
  {"list", "update", "create", "delete", "ec_getOne", "ec_create",
   "cs_collections", "cs_health", "cs_docs"}

\* C31: all store calls of one tool invocation use one Configuration. An
\* invocation that has a store call in flight sends its next store call on
\* the same client, and it sends no data call on a client that holds no
\* authentication.
C31_OneConfigurationPerInvocation ==
  [][ \A t \in Tasks :
        (tasks[t].call.pb # 0 /\ tasks'[t].call.pb # 0 /\ tasks'[t].pc # tasks[t].pc) =>
          /\ tasks'[t].call.pb = tasks[t].call.pb
          /\ tasks'[t].pc \in DataPcs => tasks'[t].call.auth ]_vars

\* C32: when connecting the McpServer to the new transport throws, no entry
\* for that session id remains in the mapping, and a later request with the
\* same id is not routed to the failed transport.
C32_FailedSessionRemoved ==
  \A id \in DOMAIN transports : transports[id].connected

\* C33: every key of the session mapping was put there by a request that
\* starts a session: a request with an unknown id that is not an initialize
\* request adds no entry.
C33_OnlyStartRequestsRegister ==
  [][ DOMAIN transports' \subseteq DOMAIN transports \/ resp'.method = "initialize" ]_vars

\* C34: when the alternate-branch fetch succeeds after the default-branch
\* fetch failed, the content of the extraction, from which its wordCount and
\* contentLength are computed, is the body of the alternate-branch response.
C34_FallbackContent ==
  \A t \in Tasks :
    (FellBack(t) /\ tasks[t].extracted) => tasks[t].content = tasks[t].fetches[2].body

\* the authenticate tool is waiting on one of its three store calls
Authenticating == authenticate.pc \in {"auth", "collections", "health"}

\* C35: an authenticate call that fails at any of its three store calls
\* leaves process.env, the store client, the collection name and the
\* initialized flag as they were, and so does every call that has not yet
\* passed all three; the call that passes them sets the endpoint and the
\* credentials and replaces the Configuration as a whole, with a new client
\* for the new endpoint.
C35_AuthenticateAllOrNothing ==
  [][ (Authenticating /\ authenticate' # authenticate) =>
        IF authenticate'.res = "ok"
        THEN /\ env' = [env EXCEPT !.POCKETBASE_URL = authenticate.pocketbaseUrl,
                                   !.POCKETBASE_EMAIL = authenticate.email,
                                   !.POCKETBASE_PASSWORD = authenticate.password]
             /\ configInitialized'
             /\ clients' = Append(clients, NewPocketBase(authenticate.pocketbaseUrl))
             /\ pb' = Len(clients')
             /\ DOCUMENTS_COLLECTION' = Or(env.DOCUMENTS_COLLECTION, DefaultCollection)
        ELSE UNCHANGED cfgVars ]_vars

C35_Witness ==
  /\ authenticate.pc = "done" /\ authenticate.res = "error"
  /\ authenticate.password = AdminPassword
  /\ configInitialized /\ pb # 0 /\ env.POCKETBASE_PASSWORD = ""

\* Ingests against a store that may already hold a document of another URL:
\* two callers ingest a documentation page and a repository README, with and
\* without a collection override
StoredDoc == Doc(1, DefaultCollection, UrlRepo.text, "c2", FALSE)
FrameUrls == {UrlLearn, UrlRepo}

InitFrame ==
  /\ InitCore
  /\ docs \in {{}, {StoredDoc}}
  /\ html = NoHtml
  /\ collections = StoreCollections
  /\ env = [EnvConfigured EXCEPT !.TRANSPORT_MODE = "http"]
  /\ dotenvFile = EnvUnset

NextFrame ==
  \/ Main
  \/ \E q \in {EmptyQuery, QueryColl}, sid \in {"s1"}, m \in {"initialize", "tools/call"},
        url \in FrameUrls, t \in Tasks : McpRequest(q, sid, m, "extract_document", url, t)
  \/ \E t \in Tasks, ok \in BOOLEAN : RefreshDone(t, ok)
  \/ \E t \in Tasks, ok \in BOOLEAN : AuthDone(t, ok)
  \/ \E t \in Tasks, ok \in BOOLEAN, c \in {"c1"} : FetchDone(t, ok, c)
  \/ \E t \in Tasks, ok \in BOOLEAN, c \in {"c1"} : MasterFetchDone(t, ok, c)
  \/ \E t \in Tasks, ok \in BOOLEAN : ListDone(t, ok)
  \/ \E t \in Tasks, ok \in BOOLEAN : UpdateDone(t, ok)
  \/ \E t \in Tasks, ok \in BOOLEAN : CreateDone(t, ok)

SpecFrame == InitFrame /\ [][NextFrame]_vars

NoopQueries == {QueryDebug, QueryDotted, QueryBlank}

NextNoop ==
  \/ Main
  \/ \E q \in NoopQueries \cup {EmptyQuery, QueryColl}, sid \in {"", "s1"}, m \in Methods,
        t \in OneTask : McpRequest(q, sid, m, "connection_status", NoUrl, t)
  \/ \E q \in NoopQueries : SseRequest(q)
  \/ \E t \in OneTask, ok \in BOOLEAN : AuthDone(t, ok)
  \/ \E t \in OneTask, ok \in BOOLEAN : StatusCallDone(t, ok)

SpecNoop == InitIngest /\ [][NextNoop]_vars

\* the keys applySmitheryConfig reads
AppliedKeys == {"pocketbaseUrl", "pocketbaseEmail", "pocketbasePassword", "defaultCollection"}

\* query q has parameters, none of them a key applySmitheryConfig reads with
\* a value that is not empty
Ineffective(q) ==
  /\ DOMAIN q # {}
  /\ \A k \in DOMAIN q : k[1] \in AppliedKeys => (Len(k) = 1 /\ q[k] = "")

\* C37: a request whose query names no override key, or names one with an
\* empty value, leaves process.env unchanged, and yet replaces the
\* Configuration: a new store client for the same endpoint, holding no
\* authentication, the same collection name, debug flag and port, and the
\* initialized flag set.
C37_IneffectiveQueryRebuilds ==
  [][ (resp' # resp /\ Ineffective(resp'.query)) =>
        /\ env' = env
        /\ Len(clients') = Len(clients) + 1
        /\ pb' = Len(clients')
        /\ clients'[pb'] = NewPocketBase(clients[pb].baseUrl)
        /\ DOCUMENTS_COLLECTION' = DOCUMENTS_COLLECTION
        /\ HTTP_PORT' = HTTP_PORT
        /\ DEBUG' = IF DEBUG = "null" THEN "false" ELSE DEBUG
        /\ configInitialized' ]_vars

C37_Witness ==
  /\ resp.query = QueryBlank
  /\ DOCUMENTS_COLLECTION = "x"
  /\ pb >= 3 /\ clients[pb - 1].isValid /\ ~clients[pb].isValid

\* Every tool under every combination of configured and missing endpoint,
\* identity and secret, the ADMIN_ names included; callers take turns and may
\* supply the credentials by an override
CredEnvs ==
  { [EnvUnset EXCEPT !.TRANSPORT_MODE = "http", !.POCKETBASE_URL = u,
                     !.POCKETBASE_EMAIL = e, !.POCKETBASE_PASSWORD = p] :
      u \in {"", RemoteUrl}, e \in {"", AdminEmail}, p \in {"", AdminPassword} }
  \cup { [EnvUnset EXCEPT !.TRANSPORT_MODE = "http", !.POCKETBASE_URL = RemoteUrl,
                          !.POCKETBASE_ADMIN_EMAIL = AdminEmail,
                          !.POCKETBASE_ADMIN_PASSWORD = p] : p \in {"", AdminPassword} }

\* each tool with an argument of its own kind
ToolCalls ==
  { <<"extract_document", UrlLearn>>, <<"delete_document", DocArg(1)>>,
    <<"ensure_collection", NoUrl>>, <<"connection_status", NoUrl>> }

InitCreds ==
  /\ InitCore
  /\ docs = {}
  /\ html = NoHtml
  /\ collections \in {{}, StoreCollections}
  /\ env \in CredEnvs
  /\ dotenvFile = EnvUnset

NextCreds ==
  \/ Main
  \/ \E q \in {EmptyQuery, QueryCreds}, m \in {"initialize", "tools/call"},
        c \in ToolCalls, t \in Tasks :
        /\ Quiescent
        /\ t = "t1" \/ tasks["t1"].pc = "done"
        /\ McpRequest(q, "s1", m, c[1], c[2], t)
  \/ \E t \in Tasks, ok \in BOOLEAN : RefreshDone(t, ok)
  \/ \E t \in Tasks, ok \in BOOLEAN : AuthDone(t, ok)
  \/ \E t \in Tasks, ok \in BOOLEAN, c \in {"c1"} : FetchDone(t, ok, c)
  \/ \E t \in Tasks, ok \in BOOLEAN : ListDone(t, ok)
  \/ \E t \in Tasks, ok \in BOOLEAN : UpdateDone(t, ok)
  \/ \E t \in Tasks, ok \in BOOLEAN : CreateDone(t, ok)
  \/ \E t \in Tasks, outcome \in GetOneOutcomes : GetOneDone(t, outcome)
  \/ \E t \in Tasks, ok \in BOOLEAN : CollectionCreateDone(t, ok)
  \/ \E t \in Tasks, ok \in BOOLEAN : DeleteDone(t, ok)
  \/ \E t \in Tasks, ok \in BOOLEAN : StatusCallDone(t, ok)

SpecCreds == InitCreds /\ [][NextCreds]_vars

\* the identity or the secret authenticateWhenNeeded reads is missing from e
Unconfigured(e) ==
  \/ Or(e.POCKETBASE_EMAIL, e.POCKETBASE_ADMIN_EMAIL) = ""
  \/ Or(e.POCKETBASE_PASSWORD, e.POCKETBASE_ADMIN_PASSWORD) = ""

\* the invocation of t is one that goes to the store: every tool but
\* connection_status, and connection_status once it sees an endpoint and an
\* identity to test
StoreTouching(t, e) ==
  tasks[t].tool = "connection_status" => (e.POCKETBASE_URL # "" /\ e.POCKETBASE_EMAIL # "")

====
